---- MODULE Spec2Model ----
(***************************************************************************)
(* Model of sardana's measurement group core                               *)
(* (src/src/sardana/pool/poolmeasurementgroup.py):                         *)
(*   - PoolMeasurementGroup: prepare / start_acquisition / stop / abort    *)
(*     and the accessors they depend on;                                   *)
(*   - PoolMeasurementGroup._calculate_states / on_element_changed;        *)
(*   - MeasurementConfiguration.set_configuration_from_user and the        *)
(*     configuration items.                                                *)
(***************************************************************************)
EXTENDS Integers, Sequences, FiniteSets, TLC

(***************************************************************************)
(* Bounds                                                                  *)
(***************************************************************************)
MaxNbStarts == 3

MaxEvents == 3

\* start_acquisition() is not called any more once pending_starts is this
\* far below 0
MaxDeficit == 2

(***************************************************************************)
(* Orchestrator state (PoolMeasurementGroup)                               *)
(***************************************************************************)
VARIABLES
    nb_starts,          \* self._nb_starts
    pending_starts,     \* self._pending_starts
    acquisition_mode,   \* self._acquisition_mode
    synchronization,    \* self._synchronization: sequence of groups
    simulation_mode,    \* self._simulation_mode
    acq_prepared,       \* acquisition engine: last prepare() completed
    acq_nb_starts,      \* acquisition engine: nb_starts of the last prepare()
    pc,                 \* position of the caller's thread
    implicit,           \* start_acquisition is inside its implicit prepare
    saved_nb,           \* local nb_starts of start_acquisition
    raised,             \* an exception is propagating in the caller's thread
    loaded,             \* value read by "self._pending_starts -= 1"
    call,               \* the current / most recent call and what it did
    seq_n,              \* nb_starts of the last completed explicit prepare()
    seq_k               \* start_acquisition() calls made since that prepare()

acqVars == <<nb_starts, pending_starts, acquisition_mode, synchronization,
             simulation_mode, acq_prepared, acq_nb_starts, pc, implicit,
             saved_nb, raised, loaded, call, seq_n, seq_k>>

(***************************************************************************)
(* Run-time state (PoolMeasurementGroup._calculate_states,                 *)
(* on_element_changed) and the threads that touch it                       *)
(***************************************************************************)
VARIABLES
    state,              \* published state (set_state)
    status,             \* published status (set_status), as its lines
    state_lock,         \* self._state_lock: "free" or the holding thread
    hpc,                \* position of each event-delivery thread
    hloc,               \* locals of each handler: inputs read and result
    delivered,          \* number of events delivered so far
    last_calc,          \* result of the most recent _calculate_states
    fusions,            \* every (state, status) computed by one fusion
    rpc,                \* position of the reading thread
    robs,               \* what the reading thread has read
    roverlap            \* a handler published while the reader was reading

fusVars == <<state, status, state_lock, hpc, hloc, delivered, last_calc,
             fusions, rpc, robs, roverlap>>

(***************************************************************************)
(* Configuration state (MeasurementConfiguration and its owner) and the    *)
(* threads that touch it                                                   *)
(***************************************************************************)
VARIABLES
    config,             \* the attributes of the MeasurementConfiguration
    user_element_ids,   \* the owner's membership ordering
    config_dirty,       \* PoolMeasurementGroup._config_dirty
    cpc,                \* position of the configuring thread
    cin,                \* arguments of the call in progress
    clocals,            \* local variables of the call once normalized
    cstep,              \* the next assignment of the commit
    ccall,              \* the current / most recent call and what it did
    cr_pc,              \* position of the thread reading the configuration
    cr_obs,             \* what that thread has read
    cr_models,          \* the models that were current while it read
    qry                 \* the lookup made since the last call and its outcome

confVars == <<config, user_element_ids, config_dirty, cpc, cin, clocals,
              cstep, ccall, cr_pc, cr_obs, cr_models, qry>>

\* the configuration state but the owner's dirty flag
confButDirty == <<config, user_element_ids, cpc, cin, clocals, cstep, ccall,
                  cr_pc, cr_obs, cr_models, qry>>

(***************************************************************************)
(* One TimerableControllerConfiguration driven through its own methods     *)
(***************************************************************************)
VARIABLES
    item,               \* the controller item
    vres                \* the last method called on it and its outcome

itemVars == <<item, vres>>

(***************************************************************************)
(* Further attributes of the orchestrator                                  *)
(***************************************************************************)
VARIABLES
    monitor_count,      \* self._monitor_count
    moveable,           \* self._moveable
    moveable_obj,       \* self._moveable_obj
    group_elements      \* self._user_elements

attrVars == <<monitor_count, moveable, moveable_obj, group_elements>>

nonAcqVars == <<fusVars, confVars, itemVars, attrVars>>

nonFusVars == <<acqVars, confVars, itemVars, attrVars>>

nonConfVars == <<acqVars, fusVars, itemVars, attrVars>>

nonItemVars == <<acqVars, fusVars, confVars, attrVars>>

vars == <<acqVars, fusVars, confVars, itemVars, attrVars>>

AcqModes == {"Timer", "Monitor"}

\* One synchronization group: Active + Latency = Total
SynchGroup(active) ==
    [Delay |-> 0, Active |-> active, Total |-> active, Repeats |-> 1]

SynchInputs == {<<>>, <<SynchGroup(1)>>, <<SynchGroup(1), SynchGroup(1)>>}

\* value holds the argument of a setter or what a getter returned
\* whether the most recent prepare(), explicit or implicit, raised; read
\* when the next call is made
LastPrepareRaised ==
    IF call.name = "prepare" THEN call.result = "raised"
    ELSE IF call.name = "start_acquisition" /\ call.implicit
         THEN call.result = "raised"
         ELSE call.prepare_raised

NewCall(name) ==
    [name |-> name, result |-> "running", effects |-> <<>>,
     nb_before |-> nb_starts, pending_before |-> pending_starts,
     implicit |-> FALSE, engine_nb |-> 0, propagate |-> 1, value |-> <<>>,
     latency |-> 0, prepare_raised |-> LastPrepareRaised]

\* the call of a setter with its arguments
Setter(name, value, propagate) ==
    [NewCall(name) EXCEPT !.value = <<value>>, !.propagate = propagate]

Effect(c, e) == [c EXCEPT !.effects = Append(@, e)]

\* if not propagate: return; self.fire_event(EventType(name, ...), ...)
FireIfPropagate(c, propagate, event) ==
    IF propagate = 0 THEN c ELSE Effect(c, event)

Done(c, res) == [c EXCEPT !.result = res]

Has(c, e) == \E i \in 1..Len(c.effects) : c.effects[i] = e

(***************************************************************************)
(* get_integration_time / _get_value                                       *)
(***************************************************************************)
\* SynchronizationDescription.active_time: the active time of the only
\* group (a float), else the list of the active times of the groups
ActiveTime(synch) ==
    IF Len(synch) = 1 THEN [float |-> synch[1].Active]
    ELSE [list |-> [k \in 1..Len(synch) |-> synch[k].Active]]

\* an accessor that answers with the first active time of a list
GetIntegrationTime_First(active_time) ==
    IF "float" \in DOMAIN active_time
    THEN [result |-> "ok", value |-> <<active_time.float>>]
    ELSE IF Len(active_time.list) = 0
    THEN [result |-> "raised", value |-> <<>>]
    ELSE [result |-> "ok", value |-> <<active_time.list[1]>>]

\* lines 1010-1017: a float is returned, an empty list and a list of more
\* than one value raise, a list of one value ends the function (None)
GetIntegrationTime(active_time) ==
    IF "float" \in DOMAIN active_time
    THEN [result |-> "ok", value |-> <<active_time.float>>]
    ELSE IF Len(active_time.list) = 0
    THEN [result |-> "raised", value |-> <<>>]
    ELSE IF Len(active_time.list) > 1
    THEN [result |-> "raised", value |-> <<>>]
    ELSE [result |-> "ok", value |-> <<>>]

IntegrationTimeRaises(synch) ==
    GetIntegrationTime(ActiveTime(synch)).result = "raised"

\* a caller reads the integration time
CallGetIntegrationTime ==
    /\ pc = "idle"
    /\ call' = [NewCall("get_integration_time") EXCEPT
                    !.result =
                        GetIntegrationTime(ActiveTime(synchronization)).result,
                    !.value =
                        GetIntegrationTime(ActiveTime(synchronization)).value]
    /\ UNCHANGED <<nonAcqVars, nb_starts, pending_starts, acquisition_mode,
                   synchronization, simulation_mode, acq_prepared,
                   acq_nb_starts, pc, implicit, saved_nb, raised, loaded,
                   seq_n, seq_k>>

GetValueRaises(mode, synch) ==
    IF mode = "Timer" THEN IntegrationTimeRaises(synch) ELSE FALSE

(***************************************************************************)
(* set_nb_starts                                                           *)
(***************************************************************************)
SetNbStartsEffects(c, propagate) ==
    IF propagate = 0 THEN c ELSE Effect(c, "event:nb_starts")

SetNbStarts ==
    /\ pc = "idle"
    /\ \E n \in 1..MaxNbStarts, propagate \in {0, 1} :
          /\ nb_starts' = n
          /\ call' = Done(SetNbStartsEffects(
                            Setter("set_nb_starts", n, propagate),
                            propagate), "ok")
    /\ UNCHANGED <<nonAcqVars, pending_starts, acquisition_mode,
                   synchronization,
                   simulation_mode, acq_prepared, acq_nb_starts, pc, implicit,
                   saved_nb, raised, loaded, seq_n, seq_k>>

\* lines 1076-1082
SetSynchronization ==
    /\ pc = "idle"
    /\ \E s \in SynchInputs, propagate \in {0, 1} :
          /\ synchronization' = s
          /\ call' = Done(FireIfPropagate(
                            Setter("set_synchronization", s, propagate),
                            propagate, "event:synchronization"), "ok")
    /\ config_dirty' = TRUE
    /\ UNCHANGED <<fusVars, confButDirty, itemVars, attrVars, nb_starts,
                   pending_starts, acquisition_mode,
                   simulation_mode, acq_prepared, acq_nb_starts, pc, implicit,
                   saved_nb, raised, loaded, seq_n, seq_k>>

\* lines 1058-1064
SetAcquisitionMode ==
    /\ pc = "idle"
    /\ \E m \in AcqModes, propagate \in {0, 1} :
          /\ acquisition_mode' = m
          /\ call' = Done(FireIfPropagate(
                            Setter("set_acquisition_mode", m, propagate),
                            propagate, "event:acquisition_mode"), "ok")
    /\ config_dirty' = TRUE
    /\ UNCHANGED <<fusVars, confButDirty, itemVars, attrVars, nb_starts,
                   pending_starts, synchronization,
                   simulation_mode, acq_prepared, acq_nb_starts, pc, implicit,
                   saved_nb, raised, loaded, seq_n, seq_k>>

\* the latency time of the timerable controllers of the group
MonitorCounts == {100}

\* lines 1041-1046
SetMonitorCount ==
    /\ pc = "idle"
    /\ \E n \in MonitorCounts, propagate \in {0, 1} :
          /\ monitor_count' = n
          /\ call' = Done(FireIfPropagate(
                            Setter("set_monitor_count", n, propagate),
                            propagate, "event:monitor_count"), "ok")
    /\ UNCHANGED <<fusVars, confVars, itemVars, moveable, moveable_obj,
                   group_elements,
                   nb_starts, pending_starts, acquisition_mode,
                   synchronization, simulation_mode, acq_prepared,
                   acq_nb_starts, pc, implicit, saved_nb, raised, loaded,
                   seq_n, seq_k>>

\* the moveables of the pool by full name, and a name that is not fully
\* qualified
Moveables == {"fq/mot1"}

MoveableFqdn(name) == IF name = "pq/mot1" THEN "fq/mot1" ELSE name

MoveableInputs == {"None", "fq/mot1", "pq/mot1"}

\* a set_moveable that fires its event when propagation is requested
MoveableEvent_IfPropagate(c, propagate) ==
    FireIfPropagate(c, propagate, "event:moveable")

\* lines 1100-1101: the event is fired whatever propagate is
MoveableEvent(c, propagate) == Effect(c, "event:moveable")

\* lines 1094-1101
SetMoveable ==
    /\ pc = "idle"
    /\ \E m \in MoveableInputs, propagate \in {0, 1}, to_fqdn \in BOOLEAN :
          /\ (to_fqdn \/ m \in Moveables \/ m = "None")
          /\ moveable' = m
          /\ moveable_obj' = IF m = "None" THEN moveable_obj
                             ELSE IF to_fqdn THEN MoveableFqdn(m) ELSE m
          /\ call' = Done(MoveableEvent(Setter("set_moveable", m, propagate),
                                        propagate), "ok")
    /\ UNCHANGED <<fusVars, confVars, itemVars, monitor_count,
                   group_elements,
                   nb_starts, pending_starts, acquisition_mode,
                   synchronization, simulation_mode, acq_prepared,
                   acq_nb_starts, pc, implicit, saved_nb, raised, loaded,
                   seq_n, seq_k>>

(***************************************************************************)
(* prepare                                                                 *)
(***************************************************************************)
CallPrepare ==
    /\ pc = "idle"
    /\ pc' = "pr_value"
    /\ call' = NewCall("prepare")
    /\ raised' = FALSE
    /\ seq_n' = 0
    /\ seq_k' = 0
    /\ UNCHANGED <<nonAcqVars, nb_starts, pending_starts, acquisition_mode,
                   synchronization, simulation_mode, acq_prepared,
                   acq_nb_starts, implicit, saved_nb, loaded>>

\* where prepare() goes when it returns or raises
AfterPrepare == IF implicit THEN "sa_finally" ELSE "idle"

\* value = self._get_value()
PrepareGetValue ==
    /\ pc = "pr_value"
    /\ IF GetValueRaises(acquisition_mode, synchronization)
       THEN /\ raised' = TRUE
            /\ pc' = AfterPrepare
            /\ call' = IF implicit THEN call ELSE Done(call, "raised")
       ELSE /\ pc' = "pr_pending"
            /\ UNCHANGED <<raised, call>>
    /\ UNCHANGED <<nonAcqVars, nb_starts, pending_starts, acquisition_mode,
                   synchronization, simulation_mode, acq_prepared,
                   acq_nb_starts, implicit, saved_nb, loaded, seq_n, seq_k>>

PendingAfterPrepare_One(nb) == 1

PendingAfterPrepare(nb) == nb

\* self._pending_starts = self.nb_starts
PreparePending ==
    /\ pc = "pr_pending"
    /\ pending_starts' = PendingAfterPrepare(nb_starts)
    /\ pc' = "pr_engine"
    /\ UNCHANGED <<nonAcqVars, nb_starts, acquisition_mode, synchronization,
                   simulation_mode, acq_prepared, acq_nb_starts, implicit,
                   saved_nb, raised, loaded, call, seq_n, seq_k>>

\* self.acquisition.prepare(..., self.nb_starts, **kwargs): the engine is an
\* external collaborator, its prepare() either completes or raises
PrepareEngine ==
    /\ pc = "pr_engine"
    /\ \E ok \in BOOLEAN :
          /\ acq_prepared' = ok
          /\ acq_nb_starts' = nb_starts
          /\ raised' = ~ok
          /\ pc' = AfterPrepare
          /\ LET c == [Effect(call, "acquisition.prepare")
                          EXCEPT !.engine_nb = nb_starts]
             IN  call' = IF implicit THEN c
                         ELSE Done(c, IF ok THEN "ok" ELSE "raised")
          /\ seq_n' = IF implicit THEN seq_n
                      ELSE IF ok THEN nb_starts ELSE 0
    /\ UNCHANGED <<nonAcqVars, nb_starts, pending_starts, acquisition_mode,
                   synchronization, simulation_mode, implicit, saved_nb,
                   loaded, seq_k>>

(***************************************************************************)
(* start_acquisition                                                       *)
(***************************************************************************)
CallStartAcquisition ==
    /\ pc = "idle"
    /\ pending_starts > -MaxDeficit
    /\ pc' = "sa_check"
    /\ call' = NewCall("start_acquisition")
    /\ raised' = FALSE
    /\ IF seq_n > 0 /\ seq_k <= seq_n
       THEN seq_k' = seq_k + 1 /\ seq_n' = seq_n
       ELSE seq_k' = 0 /\ seq_n' = 0
    /\ UNCHANGED <<nonAcqVars, nb_starts, pending_starts, acquisition_mode,
                   synchronization, simulation_mode, acq_prepared,
                   acq_nb_starts, implicit, saved_nb, loaded>>

NeedsImplicitPrepare(pending) == pending = 0

\* if self._pending_starts == 0: warning; nb_starts = self.nb_starts;
\* self.set_nb_starts(1, propagate=0); try: self.prepare(multiple)
StartCheck ==
    /\ pc = "sa_check"
    /\ IF NeedsImplicitPrepare(pending_starts)
       THEN /\ saved_nb' = nb_starts
            /\ nb_starts' = 1
            /\ implicit' = TRUE
            /\ call' = [SetNbStartsEffects(Effect(call, "warning"), 0)
                           EXCEPT !.implicit = TRUE]
            /\ pc' = "pr_value"
       ELSE /\ pc' = "sa_load"
            /\ UNCHANGED <<saved_nb, nb_starts, implicit, call>>
    /\ UNCHANGED <<nonAcqVars, pending_starts, acquisition_mode,
                   synchronization,
                   simulation_mode, acq_prepared, acq_nb_starts, raised,
                   loaded, seq_n, seq_k>>

RestoredNbStarts_NoFinally(saved, current, exc) ==
    IF exc THEN current ELSE saved

RestoredNbStarts(saved, current, exc) == saved

\* finally: self.set_nb_starts(nb_starts, propagate=0)
StartFinally ==
    /\ pc = "sa_finally"
    /\ nb_starts' = RestoredNbStarts(saved_nb, nb_starts, raised)
    /\ implicit' = FALSE
    /\ IF raised
       THEN /\ pc' = "idle"
            /\ call' = Done(SetNbStartsEffects(call, 0), "raised")
       ELSE /\ pc' = "sa_load"
            /\ call' = SetNbStartsEffects(call, 0)
    /\ UNCHANGED <<nonAcqVars, pending_starts, acquisition_mode,
                   synchronization,
                   simulation_mode, acq_prepared, acq_nb_starts, saved_nb,
                   raised, loaded, seq_n, seq_k>>

\* self._pending_starts -= 1 (read)
StartLoad ==
    /\ pc = "sa_load"
    /\ loaded' = pending_starts
    /\ pc' = "sa_store"
    /\ UNCHANGED <<nonAcqVars, nb_starts, pending_starts, acquisition_mode,
                   synchronization, simulation_mode, acq_prepared,
                   acq_nb_starts, implicit, saved_nb, raised, call, seq_n,
                   seq_k>>

\* self._pending_starts -= 1 (write)
StartStore ==
    /\ pc = "sa_store"
    /\ pending_starts' = loaded - 1
    /\ pc' = "sa_run"
    /\ UNCHANGED <<nonAcqVars, nb_starts, acquisition_mode, synchronization,
                   simulation_mode, acq_prepared, acq_nb_starts, implicit,
                   saved_nb, raised, loaded, call, seq_n, seq_k>>

\* if not self._simulation_mode: self.acquisition.run()
StartRun ==
    /\ pc = "sa_run"
    /\ pc' = "idle"
    /\ call' = Done(IF simulation_mode THEN call
                    ELSE Effect(call, "acquisition.run"), "ok")
    /\ UNCHANGED <<nonAcqVars, nb_starts, pending_starts, acquisition_mode,
                   synchronization, simulation_mode, acq_prepared,
                   acq_nb_starts, implicit, saved_nb, raised, loaded, seq_n,
                   seq_k>>

(***************************************************************************)
(* stop / abort                                                            *)
(***************************************************************************)
StopEffects == <<"synch_soft.stop", "PoolGroupElement.stop">>

AbortEffects == <<"PoolGroupElement.abort">>

PendingAfterStop_Keep(pending) == pending

PendingAfterStop(pending) == 0

Stop ==
    /\ pc = "idle"
    /\ pending_starts' = PendingAfterStop(pending_starts)
    /\ call' = Done([NewCall("stop") EXCEPT !.effects = StopEffects], "ok")
    /\ seq_n' = 0
    /\ seq_k' = 0
    /\ UNCHANGED <<nonAcqVars, nb_starts, acquisition_mode, synchronization,
                   simulation_mode, acq_prepared, acq_nb_starts, pc, implicit,
                   saved_nb, raised, loaded>>

Abort ==
    /\ pc = "idle"
    /\ pending_starts' = PendingAfterStop(pending_starts)
    /\ call' = Done([NewCall("abort") EXCEPT !.effects = AbortEffects], "ok")
    /\ seq_n' = 0
    /\ seq_k' = 0
    /\ UNCHANGED <<nonAcqVars, nb_starts, acquisition_mode, synchronization,
                   simulation_mode, acq_prepared, acq_nb_starts, pc, implicit,
                   saved_nb, raised, loaded>>

\* stop() in another thread while a call of the caller's thread is running
StopConcurrent ==
    /\ pc # "idle"
    /\ pending_starts' = PendingAfterStop(pending_starts)
    /\ seq_n' = 0
    /\ seq_k' = 0
    /\ UNCHANGED <<nonAcqVars, nb_starts, acquisition_mode, synchronization,
                   simulation_mode, acq_prepared, acq_nb_starts, pc, implicit,
                   saved_nb, raised, loaded, call>>

\* abort() in another thread while a call of the caller's thread is running
AbortConcurrent ==
    /\ pc # "idle"
    /\ pending_starts' = PendingAfterStop(pending_starts)
    /\ seq_n' = 0
    /\ seq_k' = 0
    /\ UNCHANGED <<nonAcqVars, nb_starts, acquisition_mode, synchronization,
                   simulation_mode, acq_prepared, acq_nb_starts, pc, implicit,
                   saved_nb, raised, loaded, call>>

(***************************************************************************)
(* _calculate_states                                                       *)
(***************************************************************************)
\* states PoolGroupElement._calculate_states may report for the members
BaseStates == {"On", "Moving", "Alarm", "Fault", "Unknown"}

\* status PoolGroupElement._calculate_states reports: a list of lines
BaseStatus(s) == <<"mg01 elements are in", s>>

\* the characters of "/nSoftware synchronization is in progress"
SwSynchMsg ==
    <<"/", "n", "S", "o", "f", "t", "w", "a", "r", "e", " ",
      "s", "y", "n", "c", "h", "r", "o", "n", "i", "z", "a", "t", "i", "o",
      "n", " ", "i", "s", " ", "i", "n", " ",
      "p", "r", "o", "g", "r", "e", "s", "s">>

\* status += "<str>" on a list: the list is extended with the characters
ExtendStatus(lines, chars) == lines \o chars

BusyCondition(base_state, synch_soft, acq_sw, acq_0d) ==
    /\ base_state \in {"On", "Unknown"}
    /\ (synch_soft \/ acq_sw \/ acq_0d)

\* a fusion that stays busy once a fusion has answered busy
CalculateStates_Kept(base_state, base_status, synch_soft, acq_sw, acq_0d) ==
    IF \/ BusyCondition(base_state, synch_soft, acq_sw, acq_0d)
       \/ (last_calc.state = "Moving" /\ base_state \in {"On", "Unknown"})
    THEN [state |-> "Moving",
          status |-> ExtendStatus(base_status, SwSynchMsg)]
    ELSE [state |-> base_state, status |-> base_status]

CalculateStates(base_state, base_status, synch_soft, acq_sw, acq_0d) ==
    IF BusyCondition(base_state, synch_soft, acq_sw, acq_0d)
    THEN [state |-> "Moving",
          status |-> ExtendStatus(base_status, SwSynchMsg)]
    ELSE [state |-> base_state, status |-> base_status]

\* "\n".join(status): the string, represented by its "\n"-separated lines
JoinLines(lines) == lines

(***************************************************************************)
(* on_element_changed, one thread per event source                         *)
(***************************************************************************)
Handlers == {"h1", "h2"}

\* the threads that ask for the fused state on demand
Callers == {"d1", "d2"}

EventNames == {"state", "value"}

NoLocals == [none |-> TRUE]

InCriticalSection(h) == hpc[h] \in {"calc", "set_state", "set_status"}

\* an event reaches on_element_changed; only 'state' events are handled
DeliverEvent(h) ==
    /\ hpc[h] = "idle"
    /\ delivered < MaxEvents
    /\ delivered' = delivered + 1
    /\ \E name \in EventNames :
          hpc' = [hpc EXCEPT ![h] = IF name = "state" THEN "lock" ELSE "idle"]
    /\ UNCHANGED <<nonFusVars, state, status, state_lock, hloc, last_calc,
                   fusions, rpc, robs, roverlap>>

LockAvailable_NoLock(lock) == TRUE

LockAvailable(lock) == lock = "free"

\* with self._state_lock:
HandlerAcquire(h) ==
    /\ hpc[h] = "lock"
    /\ LockAvailable(state_lock)
    /\ state_lock' = h
    /\ hpc' = [hpc EXCEPT ![h] = "calc"]
    /\ UNCHANGED <<nonFusVars, state, status, hloc, delivered, last_calc,
                   fusions, rpc, robs, roverlap>>

\* state, status = self._calculate_states()
HandlerCalculate(h) ==
    /\ hpc[h] = "calc"
    /\ \E base \in BaseStates, synch_soft \in BOOLEAN, acq_sw \in BOOLEAN,
          acq_0d \in BOOLEAN :
          LET r == CalculateStates(base, BaseStatus(base), synch_soft,
                                   acq_sw, acq_0d)
          IN  /\ hloc' = [hloc EXCEPT ![h] =
                            [base_state |-> base,
                             base_status |-> BaseStatus(base),
                             synch_soft |-> synch_soft,
                             acq_sw |-> acq_sw,
                             acq_0d |-> acq_0d,
                             state |-> r.state,
                             status |-> r.status]]
              /\ last_calc' = r
              /\ fusions' = fusions \cup {r}
    /\ hpc' = [hpc EXCEPT ![h] = "set_state"]
    /\ UNCHANGED <<nonFusVars, state, status, state_lock, delivered, rpc,
                   robs, roverlap>>

PublishedState_Base(l) == l.base_state

PublishedState(l) == l.state

\* self.set_state(state, propagate=2)
HandlerSetState(h) ==
    /\ hpc[h] = "set_state"
    /\ state' = PublishedState(hloc[h])
    /\ hpc' = [hpc EXCEPT ![h] = "set_status"]
    /\ roverlap' = (roverlap \/ rpc = "got_state")
    /\ UNCHANGED <<nonFusVars, status, state_lock, hloc, delivered,
                   last_calc, fusions, rpc, robs>>

\* self.set_status("\n".join(status)); leaving the with block
HandlerSetStatus(h) ==
    /\ hpc[h] = "set_status"
    /\ status' = JoinLines(hloc[h].status)
    /\ state_lock' = "free"
    /\ hpc' = [hpc EXCEPT ![h] = "idle"]
    /\ hloc' = [hloc EXCEPT ![h] = NoLocals]
    /\ roverlap' = (roverlap \/ rpc = "got_state")
    /\ UNCHANGED <<nonFusVars, state, delivered, last_calc, fusions, rpc,
                   robs>>

(***************************************************************************)
(* A thread reading the group's state and then its status                  *)
(***************************************************************************)
ReaderReadState ==
    /\ rpc = "idle"
    /\ robs' = [robs EXCEPT !.state = state]
    /\ rpc' = "got_state"
    /\ roverlap' = (\E h \in Handlers : hpc[h] = "set_status")
    /\ UNCHANGED <<nonFusVars, state, status, state_lock, hpc, hloc,
                   delivered, last_calc, fusions>>

ReaderReadStatus ==
    /\ rpc = "got_state"
    /\ robs' = [robs EXCEPT !.status = status]
    /\ rpc' = "done"
    /\ UNCHANGED <<nonFusVars, state, status, state_lock, hpc, hloc,
                   delivered, last_calc, fusions, roverlap>>

InitialFusion == [state |-> "Unknown", status |-> <<>>]

\* _calculate_states called on demand: the pair is returned to the caller,
\* nothing is published (fusions holds the pairs handed to set_state)
OnDemandCalculate(c) ==
    /\ hpc[c] = "idle"
    /\ \E base \in BaseStates, synch_soft \in BOOLEAN, acq_sw \in BOOLEAN,
          acq_0d \in BOOLEAN :
          \E r \in {CalculateStates(base, BaseStatus(base), synch_soft,
                                    acq_sw, acq_0d)} :
              /\ hloc' = [hloc EXCEPT ![c] =
                            [base_state |-> base,
                             base_status |-> BaseStatus(base),
                             synch_soft |-> synch_soft,
                             acq_sw |-> acq_sw,
                             acq_0d |-> acq_0d,
                             state |-> r.state,
                             status |-> r.status]]
              /\ last_calc' = r
    /\ UNCHANGED <<nonFusVars, state, status, state_lock, hpc, delivered,
                   fusions, rpc, robs, roverlap>>

FusInit ==
    /\ state = InitialFusion.state
    /\ status = InitialFusion.status
    /\ state_lock = "free"
    /\ hpc = [h \in Handlers \cup Callers |-> "idle"]
    /\ hloc = [h \in Handlers \cup Callers |-> NoLocals]
    /\ delivered = 0
    /\ last_calc = InitialFusion
    /\ fusions = {InitialFusion}
    /\ rpc = "idle"
    /\ robs = InitialFusion
    /\ roverlap = FALSE

(***************************************************************************)
(* The pool: elements the device registry resolves by full name            *)
(***************************************************************************)
\* python None where an object or a name is expected
None == [none |-> TRUE]

NoneName == "None"

\* float("+inf") as the initial index of the master searches
PlusInf == 1000000

Controller(id, timerable, ctrl_type) ==
    [type |-> "Controller", id |-> id, timerable |-> timerable,
     ctrl_type |-> ctrl_type]

Channel(id, name, type, ctrl, dtype) ==
    [type |-> type, id |-> id, name |-> name, controller |-> ctrl,
     dtype |-> dtype, dformat |-> "Scalar"]

Pool ==
    [n \in {"fq/ctrl1", "fq/ctrl2", "fq/zctrl", "fq/tgctrl",
            "fq/ct1", "fq/ct2", "fq/ct3", "fq/ct4", "fq/zd1",
            "fq/tg1", "fq/tg2"} |->
        CASE n = "fq/ctrl1"  -> Controller("id01", TRUE, "CTExpChannel")
          [] n = "fq/ctrl2"  -> Controller("id02", TRUE, "CTExpChannel")
          [] n = "fq/zctrl"  -> Controller("id03", FALSE, "ZeroDExpChannel")
          [] n = "fq/tgctrl" -> Controller("id04", FALSE, "TriggerGate")
          [] n = "fq/ct1" ->
                Channel("id11", "ct1", "CTExpChannel", "fq/ctrl1", "Double")
          [] n = "fq/ct2" ->
                Channel("id12", "ct2", "CTExpChannel", "fq/ctrl1", "Double")
          [] n = "fq/ct3" ->
                Channel("id13", "ct3", "CTExpChannel", "fq/ctrl2", "Double")
          [] n = "fq/ct4" ->
                Channel("id14", "ct4", "CTExpChannel", "fq/ctrl2", "Long")
          [] n = "fq/zd1" ->
                Channel("id15", "zd1", "ZeroDExpChannel", "fq/zctrl",
                        "Double")
          [] n = "fq/tg1" ->
                Channel("id16", "tg1", "TriggerGate", "fq/tgctrl", "Double")
          [] n = "fq/tg2" ->
                Channel("id17", "tg2", "TriggerGate", "fq/tgctrl", "Double")]

\* names that are not fully qualified and their canonical form
Pqdn ==
    [n \in {"pq/ctrl1", "pq/ct1", "pq/tg1"} |->
        CASE n = "pq/ctrl1" -> "fq/ctrl1"
          [] n = "pq/ct1" -> "fq/ct1"
          [] n = "pq/tg1" -> "fq/tg1"]

\* _to_fqdn: the canonical full name; a warning when the name changes
ToFqdn(name) == IF name \in DOMAIN Pqdn THEN Pqdn[name] ELSE name

ToFqdnWarns(name) == ToFqdn(name) # name

\* ctrl_name.startswith('__')
IsExternalName(ctrl_name) == ctrl_name \in {"__tango__", "__ext__"}

\* the short name of an external attribute "ext/<name>"
ExternalObject(full_name) ==
    [type |-> "External", id |-> full_name, name |-> full_name,
     controller |-> NoneName, dtype |-> "Double", dformat |-> "Scalar"]

GroupName == "mg01"

DFT_DESC == "General purpose measurement configuration"

(***************************************************************************)
(* python dictionaries: functions on strings; ordered dictionaries:        *)
(* sequences of [name, data] in iteration order                            *)
(***************************************************************************)
EmptyDict == <<>>

Get(d, key, default) == IF key \in DOMAIN d THEN d[key] ELSE default

Put(d, key, value) ==
    [k \in DOMAIN d \cup {key} |-> IF k = key THEN value ELSE d[k]]

\* the entries of d, and those of e for the keys d does not have
Merge(d, e) ==
    [k \in DOMAIN d \cup DOMAIN e |-> IF k \in DOMAIN d THEN d[k] ELSE e[k]]

ItemIndex(items, name) ==
    IF \E i \in 1..Len(items) : items[i].name = name
    THEN CHOOSE i \in 1..Len(items) : items[i].name = name
    ELSE 0

\* items[name] = data: a known key keeps its place, a new key goes last
PutItem(items, name, data) ==
    IF ItemIndex(items, name) = 0
    THEN Append(items, [name |-> name, data |-> data])
    ELSE [items EXCEPT ![ItemIndex(items, name)].data = data]

(***************************************************************************)
(* Configuration items                                                     *)
(***************************************************************************)
\* ConfigurationItem: the element and the attributes merged into __dict__
ChannelItem(element, ch_data) == [element |-> element, attrs |-> ch_data]

\* SynchronizerConfiguration: disabled by default
SynchronizerItem(element) ==
    [element |-> element, attrs |-> [enabled |-> FALSE]]

\* the timer / monitor attribute of a new controller item: the string given
\* in the constructor attributes, else None (the wrapped controller element
\* has no such attribute)
MasterSlot(attrs, role) ==
    IF role \in DOMAIN attrs THEN [str |-> attrs[role]] ELSE None

\* ControllerConfiguration.__init__: disabled, no channels; the cached
\* sub-lists hold positions in channels
ControllerItem(kind, element, attrs) ==
    [kind |-> kind, element |-> element, attrs |-> attrs, enabled |-> FALSE,
     channels |-> <<>>, channels_enabled |-> <<>>,
     channels_disabled |-> <<>>, timer |-> MasterSlot(attrs, "timer"),
     monitor |-> MasterSlot(attrs, "monitor")]

AddChannel(ctrl_item, channel_item) ==
    LET pos == Len(ctrl_item.channels) + 1
    IN  IF channel_item.attrs.enabled
        THEN [ctrl_item EXCEPT
                !.channels = Append(@, channel_item),
                !.enabled = TRUE,
                !.channels_enabled = Append(@, pos)]
        ELSE [ctrl_item EXCEPT
                !.channels = Append(@, channel_item),
                !.channels_disabled = Append(@, pos)]

Positions(channels, enabled) ==
    LET sel == {i \in 1..Len(channels) : channels[i].attrs.enabled = enabled}
        F[k \in 0..Len(channels)] ==
            IF k = 0 THEN <<>>
            ELSE IF k \in sel THEN Append(F[k - 1], k) ELSE F[k - 1]
    IN  F[Len(channels)]

\* an update that does not empty the two lists first
UpdateState_Append(ctrl_item) ==
    [ctrl_item EXCEPT
        !.enabled = \E i \in 1..Len(ctrl_item.channels) :
                        ctrl_item.channels[i].attrs.enabled,
        !.channels_enabled = @ \o Positions(ctrl_item.channels, TRUE),
        !.channels_disabled = @ \o Positions(ctrl_item.channels, FALSE)]

UpdateState(ctrl_item) ==
    [ctrl_item EXCEPT
        !.enabled = \E i \in 1..Len(ctrl_item.channels) :
                        ctrl_item.channels[i].attrs.enabled,
        !.channels_enabled = Positions(ctrl_item.channels, TRUE),
        !.channels_disabled = Positions(ctrl_item.channels, FALSE)]

GetChannels(ctrl_item, enabled) ==
    LET pos == IF enabled THEN ctrl_item.channels_enabled
               ELSE ctrl_item.channels_disabled
    IN  [k \in 1..Len(pos) |-> ctrl_item.channels[pos[k]]]

\* the loop of _update_master for master is None: the last enabled channel
\* that is not above the smallest index seen so far
ElectMaster(enabled_channels) ==
    LET F[k \in 0..Len(enabled_channels)] ==
            IF k = 0 THEN [master |-> None, idx |-> PlusInf]
            ELSE IF enabled_channels[k].attrs.index > F[k - 1].idx
                 THEN F[k - 1]
                 ELSE [master |-> enabled_channels[k],
                       idx |-> enabled_channels[k].attrs.index]
    IN  F[Len(enabled_channels)].master

\* an elected master that is a channel item (has .enabled, .full_name)
IsChannelItem(x) == DOMAIN x = {"element", "attrs"}

\* the loop of _update_master for a master that is not None: an enabled
\* channel whose full name equals it replaces it
ResolveMaster(enabled_channels, master) ==
    LET F[k \in 0..Len(enabled_channels)] ==
            IF k = 0 THEN master
            ELSE IF /\ ~IsChannelItem(F[k - 1])
                    /\ enabled_channels[k].attrs.full_name = F[k - 1].str
                 THEN enabled_channels[k]
                 ELSE F[k - 1]
    IN  F[Len(enabled_channels)]

UpdateMaster(ctrl_item, role) ==
    LET master == ctrl_item[role]
        chans == GetChannels(ctrl_item, TRUE)
    IN  IF master = None THEN ElectMaster(chans)
        ELSE ResolveMaster(chans, master)

UpdateTimer(ctrl_item) ==
    [ctrl_item EXCEPT !.timer = UpdateMaster(ctrl_item, "timer")]

UpdateMonitor(ctrl_item) ==
    [ctrl_item EXCEPT !.monitor = UpdateMaster(ctrl_item, "monitor")]

\* a validate() that accepts every controller
Validate_Pass(ctrl_item) == "ok"

\* validate(): "ok", "ValueError" or the AttributeError of a master that is
\* not a channel item
Validate(ctrl_item) ==
    IF ctrl_item.kind # "timerable" THEN "ok"
    ELSE IF ~ctrl_item.enabled THEN "ok"
    ELSE IF ~IsChannelItem(ctrl_item.timer) THEN "AttributeError"
    ELSE IF ctrl_item.timer.attrs.enabled THEN "ok"
    ELSE IF ~IsChannelItem(ctrl_item.monitor) THEN "AttributeError"
    ELSE IF ctrl_item.monitor.attrs.enabled THEN "ok"
    ELSE "ValueError"

(***************************************************************************)
(* _fill_channel_data                                                      *)
(***************************************************************************)
\* _get_ndim
GetNdim(dformat) ==
    CASE dformat = "Scalar" -> 0
      [] dformat = "OneD" -> 1
      [] dformat = "TwoD" -> 2

\* _get_type raises for every data type but Double
GetTypeRaises(dtype) == dtype # "Double"

\* the defaults of the keys the user left out; the keys source, output,
\* plot_axes, conditioning, normalization, data_units, nexus_path and shape
\* are filled like plot_type and are not represented
FillChannelData(full_name, element, channel_data) ==
    IF element.type # "External" /\ GetTypeRaises(element.dtype)
    THEN [error |-> "NotImplementedError"]
    ELSE IF "index" \notin DOMAIN channel_data
    THEN [error |-> "KeyError"]
    ELSE
        LET name == Get(channel_data, "name", element.name)
            data_type == IF element.type = "External" THEN "float64"
                         ELSE "float"
            defaults ==
                [name |-> name, full_name |-> full_name, enabled |-> TRUE,
                 label |-> name, plot_type |-> "No",
                 data_type |-> data_type]
            ctrl_default ==
                IF element.type = "External" THEN EmptyDict
                ELSE [_controller_name |-> element.controller]
        IN  [error |-> "none",
             data |-> Put(Merge(channel_data, Merge(defaults, ctrl_default)),
                          "ndim", GetNdim(element.dformat))]

(***************************************************************************)
(* MeasurementConfiguration.set_configuration_from_user: the computation   *)
(* of the new model in local variables                                     *)
(***************************************************************************)
AcqSynchs ==
    {"SoftwareTrigger", "SoftwareGate", "SoftwareStart",
     "HardwareTrigger", "HardwareGate", "HardwareStart"}

\* AcqSynch.from_synch_type(is_software, synchronization)
FromSynchType(is_software, synch_type) ==
    CASE is_software /\ synch_type = "Trigger" -> "SoftwareTrigger"
      [] is_software /\ synch_type = "Gate" -> "SoftwareGate"
      [] is_software /\ synch_type = "Start" -> "SoftwareStart"
      [] ~is_software /\ synch_type = "Trigger" -> "HardwareTrigger"
      [] ~is_software /\ synch_type = "Gate" -> "HardwareGate"
      [] ~is_software /\ synch_type = "Start" -> "HardwareStart"

\* the local variables before the loop over the controllers
NewLocals(cfg) ==
    [error |-> "none",
     label |-> Get(cfg, "label", GroupName),
     description |-> Get(cfg, "description", DFT_DESC),
     timerable_ctrls |-> [v \in AcqSynchs |-> <<>>],
     zerod_ctrls |-> <<>>,
     synch_ctrls |-> <<>>,          \* references into synch_objs
     synch_objs |-> EmptyDict,      \* the synchronizer controller items
     other_ctrls |-> <<>>,
     master_timer_sw |-> None,
     master_monitor_sw |-> None,
     master_timer_sw_start |-> None,
     master_monitor_sw_start |-> None,
     master_timer_idx_sw |-> PlusInf,
     master_monitor_idx_sw |-> PlusInf,
     master_timer_idx_sw_start |-> PlusInf,
     master_monitor_idx_sw_start |-> PlusInf,
     user_elem_ids |-> EmptyDict,
     channel_acq_synch |-> EmptyDict,
     ctrl_acq_synch |-> EmptyDict,
     user_config_controllers |-> <<>>,
     warnings |-> <<>>]

Fail(l, error) == [l EXCEPT !.error = error]

Warn(l, cond, msg) ==
    IF cond THEN [l EXCEPT !.warnings = Append(@, msg)] ELSE l

\* lines 740-766: one iteration of the loop over the channel entries of a
\* controller; st holds the locals, the controller item, its snapshot
\* channels and ctrl_enabled
ProcessChannel(st, entry, external, acq_synch, to_fqdn) ==
    LET ch_name == IF external \/ ~to_fqdn THEN entry.name
                   ELSE ToFqdn(entry.name)
        full_name == IF external
                     THEN Get(entry.data, "full_name", entry.name)
                     ELSE ch_name
        channel == IF external THEN ExternalObject(full_name)
                   ELSE Pool[ch_name]
        filled == FillChannelData(full_name, channel, entry.data)
        l1 == Warn(st.l, ~external /\ to_fqdn /\ ToFqdnWarns(entry.name),
                   "pqdn")
        ch_item == ChannelItem(full_name, filled.data)
        l2 == IF ch_item.attrs.enabled
              THEN [l1 EXCEPT !.user_elem_ids =
                        Put(@, ch_item.attrs.index, channel.id)]
              ELSE l1
        l3 == IF acq_synch # NoneName
              THEN [l2 EXCEPT !.channel_acq_synch =
                        Put(@, full_name, acq_synch)]
              ELSE l2
    IN  IF filled.error # "none"
        THEN [st EXCEPT !.l = Fail(l1, filled.error)]
        ELSE [l |-> l3,
              ctrl_item |-> AddChannel(st.ctrl_item, ch_item),
              uc_channels |-> PutItem(st.uc_channels, ch_name, filled.data),
              ctrl_enabled |-> st.ctrl_enabled \/ ch_item.attrs.enabled]

\* lines 739-766: the loop, left at the first exception
RECURSIVE ProcessChannels(_, _, _, _, _)
ProcessChannels(st, channels, external, acq_synch, to_fqdn) ==
    IF Len(channels) = 0 \/ st.l.error # "none" THEN st
    ELSE ProcessChannels(ProcessChannel(st, Head(channels), external,
                                        acq_synch, to_fqdn),
                         Tail(channels), external, acq_synch, to_fqdn)

\* lines 693-706: attach a SynchronizerConfiguration to the item of its
\* controller, reusing the item of a previous entry; the list gets one more
\* reference in both cases
AttachSynchronizer(l, synchronizer) ==
    LET pool_synch_ctrl == Pool[synchronizer].controller
        found == \E i \in 1..Len(l.synch_ctrls) :
                    l.synch_ctrls[i] = pool_synch_ctrl
        conf_synch_ctrl ==
            IF found THEN l.synch_objs[pool_synch_ctrl]
            ELSE ControllerItem("plain", pool_synch_ctrl, EmptyDict)
    IN  [l EXCEPT
            !.synch_objs = Put(@, pool_synch_ctrl,
                               AddChannel(conf_synch_ctrl,
                                          SynchronizerItem(synchronizer))),
            !.synch_ctrls = Append(@, pool_synch_ctrl)]

\* line 774: conf_synch.enabled = ctrl_enabled, on the item attached last
SetSynchronizerEnabled(l, synchronizer, ctrl_enabled) ==
    LET pool_synch_ctrl == Pool[synchronizer].controller
        obj == l.synch_objs[pool_synch_ctrl]
        pos == Len(obj.channels)
    IN  [l EXCEPT !.synch_objs = Put(@, pool_synch_ctrl,
            [obj EXCEPT !.channels[pos].attrs.enabled = ctrl_enabled])]

\* a resolution that knows the synchronization key only
ResolveSynchronization_Modern(ctrl_data) ==
    IF "synchronization" \in DOMAIN ctrl_data THEN ctrl_data.synchronization
    ELSE "Trigger"

\* lines 708-719
ResolveSynchronization(ctrl_data) ==
    IF "synchronization" \in DOMAIN ctrl_data THEN ctrl_data.synchronization
    ELSE IF "trigger_type" \in DOMAIN ctrl_data THEN ctrl_data.trigger_type
    ELSE "Trigger"

\* a notice for every entry that has the trigger_type key
TriggerTypeWarns_KeyPresent(ctrl_data) == "trigger_type" \in DOMAIN ctrl_data

\* lines 712-717: the notice is given inside the fallback
TriggerTypeWarns(ctrl_data) ==
    /\ "synchronization" \notin DOMAIN ctrl_data
    /\ "trigger_type" \in DOMAIN ctrl_data

\* a master that replaces every master found before
LowerIndex_Always(index, master_idx) == TRUE

\* lines 786, 789, 793, 796: ctrl_item.timer.index < master_timer_idx_sw
LowerIndex(index, master_idx) == index < master_idx

\* an election that takes every software variant as one domain
InTriggerGateDomain_Software(acq_synch) ==
    acq_synch \in {"SoftwareTrigger", "SoftwareGate", "SoftwareStart"}

\* lines 783-784: acq_synch in (SoftwareTrigger, SoftwareGate)
InTriggerGateDomain(acq_synch) ==
    acq_synch \in {"SoftwareTrigger", "SoftwareGate"}

\* lines 780-798: the bucket of the controller and the masters
InsertController(l, ctrl_item, external, timerable, ctrl_type, acq_synch) ==
    IF external
    THEN [l EXCEPT !.other_ctrls = Append(@, ctrl_item)]
    ELSE IF timerable
    THEN
        LET l1 == [l EXCEPT !.timerable_ctrls[acq_synch] =
                                Append(@, ctrl_item)]
            t == ctrl_item.timer
            m == ctrl_item.monitor
        IN  IF InTriggerGateDomain(acq_synch)
            THEN
                LET l2 == IF LowerIndex(t.attrs.index,
                                        l1.master_timer_idx_sw)
                          THEN [l1 EXCEPT
                                  !.master_timer_sw = t,
                                  !.master_timer_idx_sw = t.attrs.index]
                          ELSE l1
                IN  IF LowerIndex(m.attrs.index, l2.master_monitor_idx_sw)
                    THEN [l2 EXCEPT
                            !.master_monitor_sw = m,
                            !.master_monitor_idx_sw = m.attrs.index]
                    ELSE l2
            ELSE IF acq_synch = "SoftwareStart"
            THEN
                LET l2 == IF LowerIndex(t.attrs.index,
                                        l1.master_timer_idx_sw_start)
                          THEN [l1 EXCEPT
                                  !.master_timer_sw_start = t,
                                  !.master_timer_idx_sw_start =
                                        t.attrs.index]
                          ELSE l1
                IN  IF LowerIndex(m.attrs.index,
                                  l2.master_monitor_idx_sw_start)
                    THEN [l2 EXCEPT
                            !.master_monitor_sw_start = m,
                            !.master_monitor_idx_sw_start = m.attrs.index]
                    ELSE l2
            ELSE l1
    ELSE IF ctrl_type = "ZeroDExpChannel"
    THEN [l EXCEPT !.zerod_ctrls = Append(@, ctrl_item)]
    ELSE l

\* lines 663-734: what one entry of cfg['controllers'] says before its
\* channels are visited
ControllerEntry(entry, to_fqdn) ==
    LET ctrl_data == IF "units" \in DOMAIN entry.data
                     THEN entry.data.units["0"]
                     ELSE entry.data
        external == IsExternalName(entry.name)
        ctrl_name == IF external \/ ~to_fqdn THEN entry.name
                     ELSE ToFqdn(entry.name)
        timerable == ~external /\ Pool[ctrl_name].timerable
        synchronizer0 == Get(ctrl_data, "synchronizer", "software")
        software == synchronizer0 \in {NoneName, "software"}
        synchronizer == IF software \/ ~to_fqdn THEN synchronizer0
                        ELSE ToFqdn(synchronizer0)
        synch_type == ResolveSynchronization(ctrl_data)
        is_software == synchronizer = "software"
    IN  [ctrl_data |-> ctrl_data,
         external |-> external,
         ctrl_name |-> ctrl_name,
         timerable |-> timerable,
         ctrl_type |-> IF external THEN "External"
                       ELSE Pool[ctrl_name].ctrl_type,
         software |-> software,
         synchronizer |-> synchronizer,
         synch_type |-> synch_type,
         ctrl_conf |-> [synchronizer |-> IF software THEN "software"
                                         ELSE synchronizer,
                        synchronization |-> synch_type],
         acq_synch |-> IF timerable
                       THEN FromSynchType(is_software, synch_type)
                       ELSE NoneName,
         pqdn_ctrl |-> ~external /\ to_fqdn /\ ToFqdnWarns(entry.name),
         pqdn_synch |-> ~software /\ to_fqdn /\ ToFqdnWarns(synchronizer0),
         trigger_type |-> TriggerTypeWarns(ctrl_data)]

\* lines 674-731: the locals when the loop over the channels starts
OpenController(l, h) ==
    LET l1 == Warn(l, h.pqdn_ctrl, "pqdn")
        l2 == Warn(l1, h.pqdn_synch, "pqdn")
        l3 == IF h.software THEN l2
              ELSE AttachSynchronizer(l2, h.synchronizer)
        l4 == Warn(l3, h.trigger_type, "trigger_type")
    IN  IF h.timerable
        THEN [l4 EXCEPT !.ctrl_acq_synch =
                            Put(@, h.ctrl_name, h.acq_synch)]
        ELSE l4

\* lines 725-734
NewControllerItem(h) ==
    IF h.external THEN ControllerItem("external", h.ctrl_name, EmptyDict)
    ELSE IF h.timerable
    THEN ControllerItem("timerable", h.ctrl_name, h.ctrl_conf)
    ELSE ControllerItem("plain", h.ctrl_name, h.ctrl_conf)

\* lines 736-766
VisitChannels(l, h, to_fqdn) ==
    ProcessChannels([l |-> l, ctrl_item |-> NewControllerItem(h),
                     uc_channels |-> <<>>, ctrl_enabled |-> FALSE],
                    h.ctrl_data.channels, h.external, h.acq_synch, to_fqdn)

\* lines 767-769
ElectMasters(ctrl_item, h) ==
    IF h.timerable THEN UpdateMonitor(UpdateTimer(ctrl_item)) ELSE ctrl_item

\* a snapshot entry in the shape used before feature-372 and SEP6
UserConfigCtrl_Units(h, uc_channels) ==
    [synchronizer |-> h.ctrl_conf.synchronizer,
     trigger_type |-> h.synch_type,
     units |-> [u \in {"0"} |-> [channels |-> uc_channels]]]

\* lines 679, 686 / 692, 722, 738: the entry of the controller in the
\* snapshot
UserConfigCtrl(h, uc_channels) ==
    [synchronizer |-> h.ctrl_conf.synchronizer,
     synchronization |-> h.synch_type,
     channels |-> uc_channels]

\* lines 770-800: the snapshot entry, the synchronizer state, validate()
\* and the bucket
CloseController(st, h, ctrl_item) ==
    LET masters_ok == /\ IsChannelItem(ctrl_item.timer)
                      /\ IsChannelItem(ctrl_item.monitor)
        uc_ctrl0 == UserConfigCtrl(h, st.uc_channels)
        uc_ctrl == IF h.timerable /\ masters_ok
                   THEN Merge([timer |-> ctrl_item.timer.attrs.full_name,
                               monitor |->
                                    ctrl_item.monitor.attrs.full_name],
                              uc_ctrl0)
                   ELSE uc_ctrl0
        l6 == IF h.software THEN st.l
              ELSE SetSynchronizerEnabled(st.l, h.synchronizer,
                                          st.ctrl_enabled)
        l7 == [l6 EXCEPT !.user_config_controllers =
                            PutItem(@, h.ctrl_name, uc_ctrl)]
    IN  IF st.l.error # "none" THEN st.l
        ELSE IF h.timerable /\ ~masters_ok THEN Fail(l7, "AttributeError")
        ELSE IF Validate(ctrl_item) # "ok" THEN Fail(l7, Validate(ctrl_item))
        ELSE InsertController(l7, ctrl_item, h.external, h.timerable,
                              h.ctrl_type, h.acq_synch)

FinishEntry(st, h) == CloseController(st, h, ElectMasters(st.ctrl_item, h))

\* an iteration that keeps an entry without channels
ProcessEntry_Keep(l, h, to_fqdn) ==
    FinishEntry(VisitChannels(OpenController(l, h), h, to_fqdn), h)

\* lines 665-800: an entry without channels is skipped
ProcessEntry(l, h, to_fqdn) ==
    IF Len(h.ctrl_data.channels) = 0 THEN l
    ELSE FinishEntry(VisitChannels(OpenController(l, h), h, to_fqdn), h)

\* lines 656-800: one iteration of the loop over cfg['controllers']
ProcessController(l, entry, to_fqdn) ==
    IF l.error # "none" THEN l
    ELSE ProcessEntry(l, ControllerEntry(entry, to_fqdn), to_fqdn)

\* a normalization that leaves the synchronizer controllers as they are
UpdateSynchStates_Skip(l) == l

\* lines 802-804: update_state of every synchronizer controller item
UpdateSynchStates(l) ==
    [l EXCEPT !.synch_objs =
        [c \in DOMAIN l.synch_objs |-> UpdateState(l.synch_objs[c])]]

\* a snapshot that falls back to the names of cfg whenever no software
\* trigger / gate master was elected
GroupMaster_NoStart(cfg, master_sw, master_sw_start, role) ==
    IF master_sw # None THEN [error |-> "none",
                               name |-> master_sw.attrs.full_name]
    ELSE IF role \in DOMAIN cfg THEN [error |-> "none", name |-> cfg[role]]
    ELSE [error |-> "KeyError"]

\* lines 806-821: the group-level timer / monitor of the snapshot
GroupMaster(cfg, master_sw, master_sw_start, role) ==
    IF master_sw # None THEN [error |-> "none",
                               name |-> master_sw.attrs.full_name]
    ELSE IF master_sw_start # None
    THEN [error |-> "none", name |-> master_sw_start.attrs.full_name]
    ELSE IF role \in DOMAIN cfg THEN [error |-> "none", name |-> cfg[role]]
    ELSE [error |-> "KeyError"]

\* sorted(d.keys()) and the values in that order
SortedValues(d) ==
    LET F[keys \in SUBSET (DOMAIN d)] ==
            IF keys = {} THEN <<>>
            ELSE LET top == CHOOSE k \in keys : \A j \in keys : j <= k
                 IN  Append(F[keys \ {top}], d[top])
    IN  F[DOMAIN d]

\* lines 838-843: ids of the enabled channels by index, then the ids of the
\* enabled synchronizers of every entry of synch_ctrls
SynchronizerIds(synch_ctrls) ==
    LET Ids(chans) == [k \in 1..Len(chans) |-> Pool[chans[k].element].id]
        F[i \in 0..Len(synch_ctrls)] ==
            IF i = 0 THEN <<>>
            ELSE F[i - 1] \o Ids(GetChannels(synch_ctrls[i], TRUE))
    IN  F[Len(synch_ctrls)]

UserElemIdsList(user_elem_ids, synch_ctrls) ==
    SortedValues(user_elem_ids) \o SynchronizerIds(synch_ctrls)

\* the loop over cfg['controllers'] in iteration order
ProcessControllers(cfg, to_fqdn) ==
    LET ctrls == cfg.controllers
        F[k \in 0..Len(ctrls)] ==
            IF k = 0 THEN NewLocals(cfg)
            ELSE ProcessController(F[k - 1], ctrls[k], to_fqdn)
    IN  F[Len(ctrls)]

\* the synchronizer controller items in the order of synch_ctrls
SynchCtrlList(l) ==
    [i \in 1..Len(l.synch_ctrls) |-> l.synch_objs[l.synch_ctrls[i]]]

\* lines 806-843: the values that are committed
Assemble(l, timer, monitor, synch_ctrls) ==
    IF timer.error # "none" THEN [error |-> timer.error]
    ELSE IF monitor.error # "none" THEN [error |-> monitor.error]
    ELSE
        [error |-> "none",
         label |-> l.label,
         description |-> l.description,
         timerable_ctrls |-> l.timerable_ctrls,
         zerod_ctrls |-> l.zerod_ctrls,
         synch_ctrls |-> synch_ctrls,
         other_ctrls |-> l.other_ctrls,
         master_timer_sw |-> l.master_timer_sw,
         master_monitor_sw |-> l.master_monitor_sw,
         master_timer_sw_start |-> l.master_timer_sw_start,
         master_monitor_sw_start |-> l.master_monitor_sw_start,
         user_confg |-> [controllers |-> l.user_config_controllers,
                         label |-> l.label,
                         description |-> l.description,
                         timer |-> timer.name,
                         monitor |-> monitor.name],
         channel_acq_synch |-> l.channel_acq_synch,
         ctrl_acq_synch |-> l.ctrl_acq_synch,
         user_elem_ids_list |->
             UserElemIdsList(l.user_elem_ids, synch_ctrls),
         warnings |-> l.warnings]

\* lines 802-821, after the loop over the controllers
Finalize(cfg, l) ==
    IF l.error # "none" THEN [error |-> l.error]
    ELSE Assemble(l,
                  GroupMaster(cfg, l.master_timer_sw,
                              l.master_timer_sw_start, "timer"),
                  GroupMaster(cfg, l.master_monitor_sw,
                              l.master_monitor_sw_start, "monitor"),
                  SynchCtrlList(l))

\* lines 618-843: the new model, or the exception that ends the call
Normalize(cfg, to_fqdn, user_elements) ==
    IF Len(user_elements) = 0 THEN [error |-> "ValueError"]
    ELSE Finalize(cfg, UpdateSynchStates(ProcessControllers(cfg, to_fqdn)))

\* build_measurement_configuration: members are full names of pool channels
\* or of external attributes
IsExternalMember(m) == m \notin DOMAIN Pool

\* lines 413-414, 424-425: channel_data['index'] = index; a variant that
\* counts from one
BuildChannelData_FromOne(index) == [index |-> index + 1]

BuildChannelData(index) == [index |-> index]

BuildMeasurementConfiguration(user_elements) ==
    LET ChannelData(i) == BuildChannelData(i - 1)
        F[k \in 0..Len(user_elements)] ==
            IF k = 0 THEN <<>>
            ELSE
              LET e == user_elements[k]
                  ctrl == Pool[e].controller
                  i == ItemIndex(F[k - 1], ctrl)
              IN  IF IsExternalMember(e) THEN F[k - 1]
                  ELSE IF i = 0
                  THEN Append(F[k - 1],
                        [name |-> ctrl,
                         data |-> [channels |->
                            <<[name |-> e, data |-> ChannelData(k)]>>]])
                  ELSE [F[k - 1] EXCEPT ![i].data.channels =
                            PutItem(@, e, ChannelData(k))]
        external == {k \in 1..Len(user_elements) :
                        IsExternalMember(user_elements[k])}
        X[k \in 0..Len(user_elements)] ==
            IF k = 0 THEN <<>>
            ELSE IF k \in external
                 THEN PutItem(X[k - 1], user_elements[k], ChannelData(k))
                 ELSE X[k - 1]
    IN  [controllers |->
            IF external = {} THEN F[Len(user_elements)]
            ELSE PutItem(F[Len(user_elements)], "__tango__",
                         [channels |-> X[Len(user_elements)]])]

(***************************************************************************)
(* Configurations handed to set_configuration_from_user                    *)
(***************************************************************************)
Entry(name, data) == [name |-> name, data |-> data]

On(i) == [index |-> i]

Off(i) == [index |-> i, enabled |-> FALSE]

Channels(chans) == [channels |-> chans]

Synchronized(chans, synchronizer, synch_type) ==
    [channels |-> chans, synchronizer |-> synchronizer,
     synchronization |-> synch_type]

Controllers(ctrls) == [controllers |-> ctrls]

\* the group-level timer and monitor names of a stored configuration
Named(ctrls, name) ==
    [controllers |-> ctrls, timer |-> name, monitor |-> name]

Ct1 == Entry("fq/ct1", On(0))

Ct2 == Entry("fq/ct2", On(1))

Ct3 == Entry("fq/ct3", On(2))

Zd1 == Entry("fq/zd1", On(0))

Cfgs ==
    << \* software trigger, the master is ct1
       Controllers(<<Entry("fq/ctrl1", Channels(<<Ct1, Ct2>>))>>),
       \* the first channel disabled
       Controllers(<<Entry("fq/ctrl1",
            Channels(<<Entry("fq/ct1", Off(0)), Ct2>>))>>),
       \* another controller
       Controllers(<<Entry("fq/ctrl2", Channels(<<Ct3>>))>>),
       \* hardware synchronization, stored group timer
       Named(<<Entry("fq/ctrl1",
                Synchronized(<<Ct1>>, "fq/tg1", "Gate"))>>, "fq/ct1"),
       \* hardware synchronization, no group timer key
       Controllers(<<Entry("fq/ctrl1",
                Synchronized(<<Ct1>>, "fq/tg1", "Gate"))>>),
       \* two controllers with synchronizers of one controller
       Named(<<Entry("fq/ctrl1", Synchronized(<<Ct1>>, "fq/tg1", "Trigger")),
               Entry("fq/ctrl2", Synchronized(<<Ct3>>, "fq/tg2", "Trigger"))
             >>, "fq/ct1"),
       \* software start
       Controllers(<<Entry("fq/ctrl1",
                Synchronized(<<Ct1, Ct2>>, "software", "Start"))>>),
       \* software trigger and software start together
       Controllers(<<Entry("fq/ctrl1", Channels(<<Ct2>>)),
                     Entry("fq/ctrl2",
                        Synchronized(<<Entry("fq/ct3", On(0))>>,
                                     "software", "Start"))>>),
       \* synchronizer None
       Named(<<Entry("fq/ctrl1",
                Synchronized(<<Ct1>>, NoneName, "Trigger"))>>, "fq/ct1"),
       \* a channel entry without index
       Controllers(<<Entry("fq/ctrl1",
            Channels(<<Entry("fq/ct1", [enabled |-> TRUE])>>))>>),
       \* a channel of a data type that is not implemented
       Controllers(<<Entry("fq/ctrl2",
            Channels(<<Ct3, Entry("fq/ct4", On(3))>>))>>),
       \* a timerable controller with every channel disabled
       Controllers(<<Entry("fq/ctrl1", Channels(<<Ct1>>)),
                     Entry("fq/ctrl2",
                        Channels(<<Entry("fq/ct3", Off(2))>>))>>),
       \* 0D channels only
       Controllers(<<Entry("fq/zctrl", Channels(<<Zd1>>))>>),
       Named(<<Entry("fq/zctrl", Channels(<<Zd1>>))>>, "fq/ct1"),
       Named(<<Entry("fq/zctrl",
                Channels(<<Entry("fq/zd1", Off(0))>>))>>, "fq/ct1"),
       \* an external attribute
       Controllers(<<Entry("fq/ctrl1", Channels(<<Ct1>>)),
                     Entry("__tango__",
                        Channels(<<Entry("ext/a", On(1))>>))>>),
       \* names that are not fully qualified
       Named(<<Entry("pq/ctrl1",
                Synchronized(<<Entry("pq/ct1", On(0))>>,
                             "pq/tg1", "Trigger"))>>, "pq/ct1"),
       \* channels under units (before feature-372)
       Controllers(<<Entry("fq/ctrl1",
            [units |-> [u \in {"0"} |-> Channels(<<Ct1, Ct2>>)]])>>),
       \* trigger_type (before SEP6)
       Controllers(<<Entry("fq/ctrl1",
            [channels |-> <<Ct1>>, trigger_type |-> "Gate"])>>),
       \* a controller without channels
       Controllers(<<Entry("fq/ctrl2",
                        Synchronized(<<>>, "fq/tg1", "Trigger")),
                     Entry("fq/ctrl1", Channels(<<Ct1>>))>>),
       \* label and description
       [controllers |-> <<Entry("fq/ctrl1", Channels(<<Ct1>>))>>,
        label |-> "scan", description |-> "scan group"],
       \* two controllers on software trigger, the smallest index disabled
       Controllers(<<Entry("fq/ctrl2", Channels(<<Ct3>>)),
                     Entry("fq/ctrl1",
                        Channels(<<Entry("fq/ct1", Off(0)), Ct2>>))>>),
       \* software gate and software trigger
       Controllers(<<Entry("fq/ctrl1",
                        Synchronized(<<Ct2>>, "software", "Gate")),
                     Entry("fq/ctrl2",
                        Channels(<<Entry("fq/ct3", On(0))>>))>>),
       \* the timer and the monitor of the controller named in its entry
       Controllers(<<Entry("fq/ctrl1",
            [channels |-> <<Ct1, Ct2>>, timer |-> "fq/ct2",
             monitor |-> "fq/ct2"])>>),
       \* a synchronizer for a controller whose channels are all disabled
       Named(<<Entry("fq/ctrl1", Synchronized(<<Ct1>>, "fq/tg1", "Trigger")),
               Entry("fq/zctrl",
                    Synchronized(<<Entry("fq/zd1", Off(1))>>,
                                 "fq/tg2", "Trigger"))>>, "fq/ct1"),
       \* synchronization and trigger_type together
       Controllers(<<Entry("fq/ctrl1",
            [channels |-> <<Ct1>>, synchronization |-> "Start",
             trigger_type |-> "Gate"])>>),
       \* software start, the group timer stored under another name
       Named(<<Entry("fq/ctrl1",
                Synchronized(<<Ct1, Ct2>>, "software", "Start"))>>,
             "fq/ct2"),
       \* every channel of the configuration disabled
       Controllers(<<Entry("fq/ctrl1",
            Channels(<<Entry("fq/ct1", Off(0))>>))>>),
       \* the smallest indexes on hardware synchronization and on 0D
       Named(<<Entry("fq/ctrl1", Synchronized(<<Ct1>>, "fq/tg1", "Trigger")),
               Entry("fq/zctrl", Channels(<<Entry("fq/zd1", On(1))>>)),
               Entry("fq/ctrl2", Channels(<<Ct3>>))>>, "fq/ct1")
    >>

ConfInputs == 1..Len(Cfgs)

\* inputs of fully qualified names, also given with to_fqdn = False
FqInputs == {1, 3}

\* the inputs of the runs with a concurrent reader
ReadInputs == {1, 3}

\* the orders in which a mapping with these entries may be iterated
Orders(entries) ==
    {[i \in 1..Len(entries) |-> entries[p[i]]] :
        p \in {q \in [1..Len(entries) -> 1..Len(entries)] :
                    \A i, j \in 1..Len(entries) : q[i] = q[j] => i = j}}

\* the schema before feature-372 and SEP6: the data of a controller sits
\* under units['0'] and the synchronization type is called trigger_type
LegacyData(data) ==
    [units |-> [u \in {"0"} |->
        [k \in (DOMAIN data \ {"synchronization"}) \cup
                (IF "synchronization" \in DOMAIN data
                 THEN {"trigger_type"} ELSE {}) |->
            IF k = "trigger_type" THEN data.synchronization ELSE data[k]]]]

\* cfg with other entries under 'controllers'
WithControllers(cfg, ctrls) ==
    [k \in DOMAIN cfg |-> IF k = "controllers" THEN ctrls ELSE cfg[k]]

LegacyOf(cfg) ==
    WithControllers(cfg,
        [i \in 1..Len(cfg.controllers) |->
            [name |-> cfg.controllers[i].name,
             data |-> LegacyData(cfg.controllers[i].data)]])

\* the inputs written in the current schema
ModernInputs ==
    {i \in ConfInputs :
        \A k \in 1..Len(Cfgs[i].controllers) :
            /\ "units" \notin DOMAIN Cfgs[i].controllers[k].data
            /\ "trigger_type" \notin DOMAIN Cfgs[i].controllers[k].data}

\* the inputs of the runs with lookups: software and hardware
\* synchronization, another controller, software start, 0D channels
QueryInputs == {1, 2, 3, 4, 8, 14, 29}

\* members the group is constructed with
DefaultMembers == <<"fq/ct1", "fq/ct2">>

InitMembers == {DefaultMembers, <<"fq/ct3", "fq/ct1">>}

(***************************************************************************)
(* set_configuration_from_user as the steps of the configuring thread      *)
(***************************************************************************)
\* the assignments of lines 824-836, in order
CommitOrder ==
    <<"label", "description", "timerable_ctrls", "zerod_ctrls",
      "synch_ctrls", "other_ctrls", "master_timer_sw", "master_monitor_sw",
      "master_timer_sw_start", "master_monitor_sw_start", "user_confg",
      "channel_acq_synch", "ctrl_acq_synch">>

\* the model held by the attributes of r
ModelOf(r) == [f \in {CommitOrder[i] : i \in 1..Len(CommitOrder)} |-> r[f]]

\* the attributes after the first successful normalization
Committed(r) ==
    [f \in DOMAIN ModelOf(r) \cup {"changed"} |->
        IF f = "changed" THEN TRUE ELSE r[f]]

\* get_user_elements(): one element per member id
GetUserElements(ids) == ids

Errors ==
    {"ValueError", "KeyError", "NotImplementedError", "AttributeError"}

Snapshot ==
    [config |-> config, user_element_ids |-> user_element_ids,
     config_dirty |-> config_dirty]

\* the attributes when the normalization raises: nothing is assigned to
\* self before line 824
ConfigAfterRaise_Buckets(cur, error) ==
    [cur EXCEPT !.timerable_ctrls = [v \in AcqSynchs |-> <<>>]]

ConfigAfterRaise(cur, error) == cur

\* the arguments of a call: kind says where cfg comes from, input is the
\* position in Cfgs of the configuration it was made of (0: none)
Args(kind, input, cfg, to_fqdn, propagate) ==
    [kind |-> kind, input |-> input, cfg |-> cfg, to_fqdn |-> to_fqdn,
     propagate |-> propagate]

NoQuery == [op |-> "none"]

\* the caller enters PoolMeasurementGroup.set_configuration_from_user
Enter(args) ==
    /\ cpc = "idle"
    /\ cin' = args
    /\ cpc' = "compute"
    /\ ccall' = [result |-> "running", events |-> <<>>, warnings |-> <<>>,
                 before |-> Snapshot]
    /\ qry' = NoQuery
    /\ UNCHANGED <<nonConfVars, config, user_element_ids, config_dirty,
                   clocals, cstep, cr_pc, cr_obs, cr_models>>

ConfCall(inputs) ==
    \E i \in inputs, to_fqdn \in BOOLEAN, propagate \in {0, 1} :
        /\ (to_fqdn \/ i \in FqInputs)
        /\ Enter(Args("user", i, Cfgs[i], to_fqdn, propagate))

\* the same configuration with its controllers in another order
ConfCallPermuted ==
    \E i \in ConfInputs :
        \E ctrls \in Orders(Cfgs[i].controllers) :
            /\ ctrls # Cfgs[i].controllers
            /\ Enter(Args("permuted", i, WithControllers(Cfgs[i], ctrls),
                          TRUE, 1))

\* the same configuration in the schema before feature-372 and SEP6
ConfCallLegacy ==
    \E i \in ModernInputs :
        Enter(Args("legacy", i, LegacyOf(Cfgs[i]), TRUE, 1))

\* set_configuration_from_user(get_user_configuration()): the stored
\* snapshot is handed back with the default arguments
ConfCallRoundTrip ==
    Enter(Args("roundtrip", 0, config.user_confg, TRUE, 1))

\* lines 620-821
ConfCompute ==
    /\ cpc = "compute"
    /\ \E r \in {Normalize(cin.cfg, cin.to_fqdn,
                          GetUserElements(user_element_ids))} :
           IF r.error # "none"
           THEN /\ config' = ConfigAfterRaise(config, r.error)
                /\ cpc' = "idle"
                /\ ccall' = [ccall EXCEPT !.result = r.error]
                /\ UNCHANGED <<clocals, cstep>>
           ELSE /\ clocals' = r
                /\ cstep' = 1
                /\ cpc' = "commit"
                /\ ccall' = [ccall EXCEPT !.warnings = r.warnings]
                /\ UNCHANGED config
    /\ UNCHANGED <<nonConfVars, user_element_ids, config_dirty, cin, cr_pc,
                   cr_obs, cr_models, qry>>

\* a reader between its two reads also overlaps the model committed now
ModelsWhileReading(models, new_model) ==
    IF cr_pc = "reading" /\ cstep = 1 THEN models \cup {new_model}
    ELSE models

\* lines 824-836, one assignment at a time
ConfCommit ==
    /\ cpc = "commit"
    /\ config' = [config EXCEPT ![CommitOrder[cstep]] =
                                    clocals[CommitOrder[cstep]]]
    /\ cr_models' = ModelsWhileReading(cr_models, ModelOf(clocals))
    /\ IF cstep = Len(CommitOrder)
       THEN cpc' = "set_ids" /\ UNCHANGED cstep
       ELSE cstep' = cstep + 1 /\ UNCHANGED cpc
    /\ UNCHANGED <<nonConfVars, user_element_ids, config_dirty, cin, clocals,
                   ccall, cr_pc, cr_obs, qry>>

\* lines 838-844
ConfSetUserElementIds ==
    /\ cpc = "set_ids"
    /\ user_element_ids' = clocals.user_elem_ids_list
    /\ cpc' = "changed"
    /\ UNCHANGED <<nonConfVars, config, config_dirty, cin, clocals, cstep,
                   ccall, cr_pc, cr_obs, cr_models, qry>>

\* line 846
ConfSetChanged ==
    /\ cpc = "changed"
    /\ config' = [config EXCEPT !.changed = TRUE]
    /\ cpc' = "dirty"
    /\ UNCHANGED <<nonConfVars, user_element_ids, config_dirty, cin, clocals,
                   cstep, ccall, cr_pc, cr_obs, cr_models, qry>>

\* lines 990-992
ConfSetDirty ==
    /\ cpc = "dirty"
    /\ config_dirty' = TRUE
    /\ IF cin.propagate = 0
       THEN /\ cpc' = "idle"
            /\ ccall' = [ccall EXCEPT !.result = "ok"]
       ELSE /\ cpc' = "event"
            /\ UNCHANGED ccall
    /\ UNCHANGED <<nonConfVars, config, user_element_ids, cin, clocals,
                   cstep, cr_pc, cr_obs, cr_models, qry>>

\* lines 993-994
ConfFireEvent ==
    /\ cpc = "event"
    /\ ccall' = [ccall EXCEPT !.result = "ok",
                              !.events = Append(@, "configuration")]
    /\ cpc' = "idle"
    /\ UNCHANGED <<nonConfVars, config, user_element_ids, config_dirty, cin,
                   clocals, cstep, cr_pc, cr_obs, cr_models, qry>>

\* a lookup that answers for every element
LookUp_Default(map, element) ==
    IF element \in DOMAIN map THEN map[element] ELSE "SoftwareTrigger"

\* lines 487, 501: self._channel_acq_synch[channel]
LookUp(map, element) ==
    IF element \in DOMAIN map THEN map[element] ELSE "KeyError"

\* get_acq_synch_by_controller / get_acq_synch_by_channel with an element
\* of the pool
ConfQuery ==
    /\ cpc = "idle"
    /\ \E e \in DOMAIN Pool :
        qry' = IF Pool[e].type = "Controller"
               THEN [op |-> "get_acq_synch_by_controller", element |-> e,
                     result |-> LookUp(config.ctrl_acq_synch, e)]
               ELSE [op |-> "get_acq_synch_by_channel", element |-> e,
                     result |-> LookUp(config.channel_acq_synch, e)]
    /\ UNCHANGED <<nonConfVars, config, user_element_ids, config_dirty, cpc,
                   cin, clocals, cstep, ccall, cr_pc, cr_obs, cr_models>>

\* a getter that answers with the software trigger / gate master
GetMasterTimerSoftwareStart_TriggerGate(conf) == conf.master_timer_sw

\* lines 598-604: return self._master_monitor_sw_start
GetMasterTimerSoftwareStart(conf) == conf.master_monitor_sw_start

\* lines 606-612: return self._master_timer_sw_start
GetMasterMonitorSoftwareStart(conf) == conf.master_timer_sw_start

\* the getters of the software-start masters, called between two calls of
\* the configuring thread
ConfGetMaster ==
    /\ cpc = "idle"
    /\ \/ qry' = [op |-> "get_master_timer_software_start",
                  element |-> NoneName,
                  result |-> GetMasterTimerSoftwareStart(config)]
       \/ qry' = [op |-> "get_master_monitor_software_start",
                  element |-> NoneName,
                  result |-> GetMasterMonitorSoftwareStart(config)]
    /\ UNCHANGED <<nonConfVars, config, user_element_ids, config_dirty, cpc,
                   cin, clocals, cstep, ccall, cr_pc, cr_obs, cr_models>>

\* get_ctrl_par("latency_time") of the controllers of the pool
LatencyPars ==
    {pars \in [{"fq/ctrl1", "fq/ctrl2", "fq/zctrl", "fq/tgctrl"} -> 0..3] :
        /\ pars["fq/ctrl1"] \in {0, 1}
        /\ pars["fq/ctrl2"] \in {0, 2}
        /\ pars["fq/zctrl"] \in {0, 3}
        /\ pars["fq/tgctrl"] \in {0, 3}}

\* the element of the pool that has the given id, None for an external one
ElementOfId(id) ==
    IF \E n \in DOMAIN Pool : Pool[n].id = id
    THEN CHOOSE n \in DOMAIN Pool : Pool[n].id = id
    ELSE NoneName

\* get_pool_controllers: the acquisition holds the controllers that own the
\* members of the group, each once, in the order of the members
RECURSIVE GetPoolControllers(_)
GetPoolControllers(ids) ==
    IF ids = <<>> THEN <<>>
    ELSE IF ElementOfId(ids[Len(ids)]) = NoneName
         THEN GetPoolControllers(SubSeq(ids, 1, Len(ids) - 1))
         ELSE IF \E k \in 1..(Len(ids) - 1) :
                    /\ ElementOfId(ids[k]) # NoneName
                    /\ Pool[ElementOfId(ids[k])].controller =
                            Pool[ElementOfId(ids[Len(ids)])].controller
              THEN GetPoolControllers(SubSeq(ids, 1, Len(ids) - 1))
              ELSE Append(GetPoolControllers(SubSeq(ids, 1, Len(ids) - 1)),
                          Pool[ElementOfId(ids[Len(ids)])].controller)

\* one iteration of the loop of get_latency_time
LatencyStep_AnyController(pool_ctrl, pars, latency_time) ==
    IF pars[pool_ctrl] > latency_time THEN pars[pool_ctrl]
    ELSE latency_time

LatencyStep(pool_ctrl, pars, latency_time) ==
    IF ~Pool[pool_ctrl].timerable THEN latency_time
    ELSE IF pars[pool_ctrl] > latency_time THEN pars[pool_ctrl]
         ELSE latency_time

\* get_latency_time: latency_time starts at 0
RECURSIVE GetLatencyTime(_, _)
GetLatencyTime(pool_ctrls, pars) ==
    IF pool_ctrls = <<>> THEN 0
    ELSE LatencyStep(pool_ctrls[Len(pool_ctrls)], pars,
            GetLatencyTime(SubSeq(pool_ctrls, 1, Len(pool_ctrls) - 1), pars))

ConfGetLatencyTime ==
    /\ cpc = "idle"
    /\ \E pars \in LatencyPars :
        qry' = [op |-> "get_latency_time", element |-> NoneName,
                pars |-> pars,
                result |-> GetLatencyTime(
                            GetPoolControllers(user_element_ids), pars)]
    /\ UNCHANGED <<nonConfVars, config, user_element_ids, config_dirty, cpc,
                   cin, clocals, cstep, ccall, cr_pc, cr_obs, cr_models>>

IntegrationTimes == {2}

\* get_ctrl_par("latency_time") of the controllers while the setters run
SetterLatencyPars ==
    {pars \in LatencyPars : pars["fq/zctrl"] = 3 /\ pars["fq/tgctrl"] = 0}

\* lines 1021-1024: a description that takes the whole time as active
IntegrationSynch_ActiveTotal(integration_time, total_time) ==
    <<[Delay |-> 0, Active |-> total_time, Total |-> total_time,
       Repeats |-> 1]>>

IntegrationSynch(integration_time, total_time) ==
    <<[Delay |-> 0, Active |-> integration_time, Total |-> total_time,
       Repeats |-> 1]>>

\* lines 1019-1029: set_synchronization is called with its default
\* propagate
SetIntegrationTime ==
    /\ pc = "idle"
    /\ \E t \in IntegrationTimes, pars \in SetterLatencyPars,
          propagate \in {0, 1} :
          /\ synchronization' =
                IntegrationSynch(t,
                    t + GetLatencyTime(GetPoolControllers(user_element_ids),
                                       pars))
          /\ call' = Done(FireIfPropagate(
                            Effect([Setter("set_integration_time", t,
                                           propagate) EXCEPT !.latency =
                                        GetLatencyTime(GetPoolControllers(
                                            user_element_ids), pars)],
                                   "event:synchronization"),
                            propagate, "event:integration_time"), "ok")
    /\ config_dirty' = TRUE
    /\ UNCHANGED <<fusVars, confButDirty, itemVars, attrVars, nb_starts,
                   pending_starts, acquisition_mode,
                   simulation_mode, acq_prepared, acq_nb_starts, pc, implicit,
                   saved_nb, raised, loaded, seq_n, seq_k>>

\* the consumer of the configuration acknowledges it: config.changed = False
ClearChanged ==
    /\ cpc = "idle"
    /\ config.changed
    /\ config' = [config EXCEPT !.changed = FALSE]
    /\ UNCHANGED <<nonConfVars, user_element_ids, config_dirty, cpc, cin,
                   clocals, cstep, ccall, cr_pc, cr_obs, cr_models, qry>>

(***************************************************************************)
(* A thread that reads the configuration through its getters               *)
(***************************************************************************)
\* the order of the keys of timerable_ctrls (lines 630-635)
AcqSynchOrder ==
    <<"HardwareGate", "HardwareStart", "HardwareTrigger", "SoftwareStart",
      "SoftwareTrigger", "SoftwareGate">>

\* _filter_ctrls: enabled is the set of accepted flags, BOOLEAN for None
FilterCtrls(ctrls, enabled) ==
    IF enabled = BOOLEAN THEN ctrls
    ELSE SelectSeq(ctrls, LAMBDA c : c.enabled \in enabled)

\* get_timerable_ctrls(acq_synch, enabled): acq_synch is None or one value
GetTimerableCtrls(timerable_ctrls, acq_synch, enabled) ==
    LET F[k \in 0..Len(AcqSynchOrder)] ==
            IF k = 0 THEN <<>>
            ELSE F[k - 1] \o timerable_ctrls[AcqSynchOrder[k]]
    IN  FilterCtrls(IF acq_synch = NoneName THEN F[Len(AcqSynchOrder)]
                    ELSE timerable_ctrls[acq_synch], enabled)

\* get_master_timer_software()
GetMasterTimerSoftware(master_timer_sw) == master_timer_sw

\* what the two getters return on one model
Reads(m) ==
    [timerable_ctrls |->
        GetTimerableCtrls(m.timerable_ctrls, NoneName, BOOLEAN),
     master_timer_sw |-> GetMasterTimerSoftware(m.master_timer_sw)]

\* the models current now: the old and the new one during a commit
CurrentModels ==
    IF cpc = "commit" /\ cstep > 1
    THEN {ModelOf(ccall.before.config), ModelOf(clocals)}
    ELSE {ModelOf(config)}

ReaderGetTimerableCtrls ==
    /\ cr_pc \in {"idle", "done"}
    /\ cr_obs' = [timerable_ctrls |->
                    GetTimerableCtrls(config.timerable_ctrls, NoneName,
                                      BOOLEAN),
                  master_timer_sw |-> None]
    /\ cr_models' = CurrentModels
    /\ cr_pc' = "reading"
    /\ UNCHANGED <<nonConfVars, config, user_element_ids, config_dirty, cpc,
                   cin, clocals, cstep, ccall, qry>>

ReaderGetMasterTimerSoftware ==
    /\ cr_pc = "reading"
    /\ cr_obs' = [cr_obs EXCEPT !.master_timer_sw =
                    GetMasterTimerSoftware(config.master_timer_sw)]
    /\ cr_pc' = "done"
    /\ UNCHANGED <<nonConfVars, config, user_element_ids, config_dirty, cpc,
                   cin, clocals, cstep, ccall, cr_models, qry>>

\* after PoolMeasurementGroup.__init__ with the given members and no
\* configuration: build_measurement_configuration, then the first
\* set_configuration_from_user
ConfInitFor(members) ==
    /\ \E m \in members :
        \E r \in {Normalize(BuildMeasurementConfiguration(m), TRUE, m)} :
            /\ r.error = "none"
            /\ config = Committed(r)
            /\ user_element_ids = r.user_elem_ids_list
    /\ config_dirty = TRUE
    /\ cpc = "idle"
    /\ cin = None
    /\ clocals = None
    /\ cstep = 1
    /\ ccall = [result |-> "ok", events |-> <<"configuration">>,
                warnings |-> <<>>, before |-> None]
    /\ cr_pc = "idle"
    /\ cr_obs = None
    /\ cr_models = {}
    /\ qry = NoQuery

ConfInit == ConfInitFor({DefaultMembers})

(***************************************************************************)
(* PoolMeasurementGroup.__init__ without a configuration: the group is     *)
(* constructed from its members alone                                      *)
(***************************************************************************)
MaxMembers == 3

BuildElements == {"fq/ct1", "fq/ct2", "fq/ct3", "fq/zd1", "ext/a"}

\* the non-empty member lists: no element twice
MemberLists ==
    UNION {{m \in [1..n -> BuildElements] :
                \A i, j \in 1..n : m[i] = m[j] => i = j} :
           n \in 1..MaxMembers}

\* the id of a member: the id of the pool element, the full name of an
\* external attribute
MemberId(m) == IF IsExternalMember(m) THEN m ELSE Pool[m].id

\* MeasurementConfiguration.__init__
NewConfiguration ==
    [label |-> NoneName, description |-> NoneName,
     timerable_ctrls |-> EmptyDict, zerod_ctrls |-> <<>>,
     synch_ctrls |-> EmptyDict, other_ctrls |-> <<>>,
     master_timer_sw |-> None, master_monitor_sw |-> None,
     master_timer_sw_start |-> None, master_monitor_sw_start |-> None,
     user_confg |-> EmptyDict, channel_acq_synch |-> EmptyDict,
     ctrl_acq_synch |-> EmptyDict, changed |-> FALSE]

\* lines 916-920: configuration is None
BuildArgs(members) ==
    [kind |-> "build", input |-> 0,
     cfg |-> BuildMeasurementConfiguration(members), to_fqdn |-> TRUE,
     propagate |-> 1, members |-> members]

\* __init__ has reached line 920 and enters set_configuration_from_user
BuildInit ==
    /\ \E m \in MemberLists :
        /\ user_element_ids = [k \in 1..Len(m) |-> MemberId(m[k])]
        /\ cin = BuildArgs(m)
    /\ config = NewConfiguration
    /\ config_dirty = TRUE
    /\ cpc = "compute"
    /\ clocals = None
    /\ cstep = 1
    /\ ccall = [result |-> "running", events |-> <<>>, warnings |-> <<>>,
                before |-> Snapshot]
    /\ cr_pc = "idle"
    /\ cr_obs = None
    /\ cr_models = {}
    /\ qry = NoQuery

(***************************************************************************)
(* TimerableControllerConfiguration through its methods                    *)
(***************************************************************************)
MaxChannels == 2

ItemChannels == {"fq/ct1", "fq/ct2", "fq/ct3"}

\* constructor attributes: the ones normalization passes, and the same with
\* the names of a timer and a monitor
ItemAttrs ==
    {[synchronizer |-> "software", synchronization |-> "Trigger"],
     [synchronizer |-> "software", synchronization |-> "Trigger",
      timer |-> "fq/ct1", monitor |-> "fq/ct2"]}

NewItem(attrs) == ControllerItem("timerable", "fq/ctrl1", attrs)

NewChannelItem(full_name, index, enabled) ==
    ChannelItem(full_name,
                FillChannelData(full_name, Pool[full_name],
                                [index |-> index, enabled |-> enabled]).data)

\* channel_item.enabled = b: the channel list and the timer / monitor slots
\* refer to one object (the channels of an item are distinct elements)
SetChannelEnabled(ctrl_item, pos, b) ==
    LET old == ctrl_item.channels[pos]
        new == [old EXCEPT !.attrs.enabled = b]
        Slot(s) == IF s = old THEN new ELSE s
    IN  [ctrl_item EXCEPT !.channels[pos] = new,
                          !.timer = Slot(@),
                          !.monitor = Slot(@)]

Called(op, result) == [op |-> op, result |-> result]

ItemNew ==
    /\ \E attrs \in ItemAttrs : item' = NewItem(attrs)
    /\ vres' = Called("__init__", "ok")
    /\ UNCHANGED nonItemVars

ItemAddChannel ==
    /\ Len(item.channels) < MaxChannels
    /\ \E n \in ItemChannels, index \in {0, 1}, enabled \in BOOLEAN :
        /\ \A i \in 1..Len(item.channels) : item.channels[i].element # n
        /\ item' = AddChannel(item, NewChannelItem(n, index, enabled))
    /\ vres' = Called("add_channel", "ok")
    /\ UNCHANGED nonItemVars

ItemSetChannelEnabled ==
    /\ \E pos \in 1..Len(item.channels), b \in BOOLEAN :
        item' = SetChannelEnabled(item, pos, b)
    /\ vres' = Called("enabled", "ok")
    /\ UNCHANGED nonItemVars

ItemUpdateState ==
    /\ item' = UpdateState(item)
    /\ vres' = Called("update_state", "ok")
    /\ UNCHANGED nonItemVars

\* the call of update_timer / update_monitor; was_none records whether the
\* slot was None when the call was made
CalledUpdate(op, master) ==
    [op |-> op, result |-> "ok", was_none |-> (master = None)]

ItemUpdateTimer ==
    /\ item' = UpdateTimer(item)
    /\ vres' = CalledUpdate("update_timer", item.timer)
    /\ UNCHANGED nonItemVars

ItemUpdateMonitor ==
    /\ item' = UpdateMonitor(item)
    /\ vres' = CalledUpdate("update_monitor", item.monitor)
    /\ UNCHANGED nonItemVars

ItemValidate ==
    /\ vres' = Called("validate", Validate(item))
    /\ UNCHANGED <<nonItemVars, item>>

ItemInit ==
    /\ item = NewItem([synchronizer |-> "software",
                       synchronization |-> "Trigger"])
    /\ vres = Called("__init__", "ok")

(***************************************************************************)
(* Specification of the orchestrator driven by one caller thread           *)
(***************************************************************************)
AcqInit ==
    /\ nb_starts = 1
    /\ pending_starts = 0
    /\ acquisition_mode = "Timer"
    /\ synchronization = <<>>
    /\ simulation_mode \in BOOLEAN
    /\ acq_prepared = FALSE
    /\ acq_nb_starts = 0
    /\ pc = "idle"
    /\ implicit = FALSE
    /\ saved_nb = 0
    /\ raised = FALSE
    /\ loaded = 0
    /\ call = [name |-> "__init__", result |-> "ok", effects |-> <<>>,
               nb_before |-> 1, pending_before |-> 0, implicit |-> FALSE,
               engine_nb |-> 0, propagate |-> 1, value |-> <<>>,
               latency |-> 0, prepare_raised |-> FALSE]
    /\ seq_n = 0
    /\ seq_k = 0

\* lines 901, 907, 908
AttrInit ==
    /\ monitor_count = NoneName
    /\ moveable = NoneName
    /\ moveable_obj = NoneName
    /\ group_elements = <<>>

Init == AcqInit /\ FusInit /\ ConfInit /\ ItemInit /\ AttrInit

Next ==
    \/ SetNbStarts
    \/ SetSynchronization
    \/ SetAcquisitionMode
    \/ CallPrepare
    \/ PrepareGetValue
    \/ PreparePending
    \/ PrepareEngine
    \/ CallStartAcquisition
    \/ StartCheck
    \/ StartFinally
    \/ StartLoad
    \/ StartStore
    \/ StartRun
    \/ Stop
    \/ Abort
    \/ CallGetIntegrationTime

Spec == Init /\ [][Next]_vars

(***************************************************************************)
(* Specification of the acquisition with stop() and abort() issued from    *)
(* another thread                                                          *)
(***************************************************************************)
StopRaceNext ==
    \/ SetNbStarts
    \/ SetSynchronization
    \/ CallPrepare
    \/ PrepareGetValue
    \/ PreparePending
    \/ PrepareEngine
    \/ CallStartAcquisition
    \/ StartCheck
    \/ StartFinally
    \/ StartLoad
    \/ StartStore
    \/ StartRun
    \/ Stop
    \/ Abort
    \/ StopConcurrent
    \/ AbortConcurrent

SpecStopRace == Init /\ [][StopRaceNext]_vars

(***************************************************************************)
(* Specification of the setters called by one caller thread                *)
(***************************************************************************)
\* the input of set_configuration_from_user in the runs with the setters
SetterInputs == {3}

SetterNext ==
    \/ (cpc = "idle" /\ SetNbStarts)
    \/ (cpc = "idle" /\ SetSynchronization)
    \/ (cpc = "idle" /\ SetAcquisitionMode)
    \/ (cpc = "idle" /\ SetIntegrationTime)
    \/ (cpc = "idle" /\ SetMonitorCount)
    \/ (cpc = "idle" /\ SetMoveable)
    \/ (cpc = "idle" /\ CallGetIntegrationTime)
    \/ ConfCall(SetterInputs)
    \/ ConfCompute
    \/ ConfCommit
    \/ ConfSetUserElementIds
    \/ ConfSetChanged
    \/ ConfSetDirty
    \/ ConfFireEvent

SpecSetters == Init /\ [][SetterNext]_vars

(***************************************************************************)
(* Specification of the concurrent state events and a reading thread       *)
(***************************************************************************)
StateInit == AcqInit /\ FusInit /\ ConfInit /\ ItemInit /\ AttrInit

StateNext ==
    \/ \E h \in Handlers : DeliverEvent(h)
    \/ \E h \in Handlers : HandlerAcquire(h)
    \/ \E h \in Handlers : HandlerCalculate(h)
    \/ \E h \in Handlers : HandlerSetState(h)
    \/ \E h \in Handlers : HandlerSetStatus(h)
    \/ ReaderReadState
    \/ ReaderReadStatus

SpecState == StateInit /\ [][StateNext]_vars

(***************************************************************************)
(* add_user_element                                                        *)
(***************************************************************************)
MaxUserElements == 4

Range(seq) == {seq[i] : i \in 1..Len(seq)}

UserElementInputs == {"fq/ct1", "fq/ct2", "fq/tg1", "fq/tg2"}

\* user_elements.insert(index, element)
InsertAt(list, index, element) ==
    SubSeq(list, 1, index) \o <<element>> \o SubSeq(list, index + 1, Len(list))

\* PoolGroupElement.add_user_element: the element is inserted at the index
\* (at the end when index is None); for an element that is already in the
\* list the base class either raises or inserts it again
BaseAddUserElement(list, element, index, base_raises) ==
    IF element \in Range(list) /\ base_raises
    THEN [user_elements |-> list, result |-> "raised"]
    ELSE [user_elements |-> InsertAt(list, index, element),
          result |-> "ok"]

\* an override that hands every element to the base class
AddUserElementResult_Base(list, element, index, base_raises) ==
    BaseAddUserElement(list, element, index, base_raises)

\* lines 957-965
AddUserElementResult(list, element, index, base_raises) ==
    IF element \in Range(list) /\ Pool[element].type = "TriggerGate"
    THEN [user_elements |-> list, result |-> "skipped"]
    ELSE BaseAddUserElement(list, element, index, base_raises)

\* index None is the index Len(group_elements)
AddUserElement ==
    /\ Len(group_elements) < MaxUserElements
    /\ \E element \in UserElementInputs, index \in 0..Len(group_elements),
          base_raises \in BOOLEAN :
          \E r \in {AddUserElementResult(group_elements, element, index,
                                         base_raises)} :
              /\ group_elements' = r.user_elements
              /\ vres' = [op |-> "add_user_element", result |-> r.result,
                          element |-> element, before |-> group_elements]
    /\ UNCHANGED <<acqVars, fusVars, confVars, item, monitor_count, moveable,
                   moveable_obj>>

MembersNext == AddUserElement

SpecMembers == Init /\ [][MembersNext]_vars

(***************************************************************************)
(* Specification of the fusion called on demand by two threads             *)
(***************************************************************************)
CalcNext == \E c \in Callers : OnDemandCalculate(c)

SpecCalc == StateInit /\ [][CalcNext]_vars

(***************************************************************************)
(* Specification of reconfiguration by one caller thread                   *)
(***************************************************************************)
ConfSpecInit ==
    AcqInit /\ FusInit /\ ConfInitFor(InitMembers) /\ ItemInit /\ AttrInit

ConfNext ==
    \/ ConfCall(ConfInputs)
    \/ ConfCallPermuted
    \/ ConfCallLegacy
    \/ ConfCallRoundTrip
    \/ ConfCompute
    \/ ConfCommit
    \/ ConfSetUserElementIds
    \/ ConfSetChanged
    \/ ConfSetDirty
    \/ ConfFireEvent
    \/ ClearChanged

SpecConf == ConfSpecInit /\ [][ConfNext]_vars

(***************************************************************************)
(* Specification of reconfiguration followed by lookups                    *)
(***************************************************************************)
ConfQueryNext ==
    \/ ConfCall(QueryInputs)
    \/ ConfCompute
    \/ ConfCommit
    \/ ConfSetUserElementIds
    \/ ConfSetChanged
    \/ ConfSetDirty
    \/ ConfFireEvent
    \/ ConfQuery
    \/ ConfGetMaster
    \/ ConfGetLatencyTime

SpecConfQuery == ConfSpecInit /\ [][ConfQueryNext]_vars

(***************************************************************************)
(* Specification of the construction of a group from its members           *)
(***************************************************************************)
BuildSpecInit == AcqInit /\ FusInit /\ BuildInit /\ ItemInit /\ AttrInit

BuildNext ==
    \/ ConfCompute
    \/ ConfCommit
    \/ ConfSetUserElementIds
    \/ ConfSetChanged
    \/ ConfSetDirty
    \/ ConfFireEvent

SpecBuild == BuildSpecInit /\ [][BuildNext]_vars

(***************************************************************************)
(* Specification of reconfiguration with a concurrent reader               *)
(***************************************************************************)
ConfReadNext ==
    \/ ConfCall(ReadInputs)
    \/ ConfCompute
    \/ ConfCommit
    \/ ConfSetUserElementIds
    \/ ConfSetChanged
    \/ ConfSetDirty
    \/ ConfFireEvent
    \/ ReaderGetTimerableCtrls
    \/ ReaderGetMasterTimerSoftware

SpecConfRead == ConfSpecInit /\ [][ConfReadNext]_vars

(***************************************************************************)
(* Specification of one controller item driven through its methods         *)
(***************************************************************************)
ItemNext ==
    \/ ItemNew
    \/ ItemAddChannel
    \/ ItemSetChannelEnabled
    \/ ItemUpdateState
    \/ ItemUpdateTimer
    \/ ItemUpdateMonitor
    \/ ItemValidate

SpecItem == Init /\ [][ItemNext]_vars

(***************************************************************************)
(* Properties of the multi-start sequence                                  *)
(***************************************************************************)
StartReturned ==
    call.name = "start_acquisition" /\ call.result \in {"ok", "raised"}

StopCalls == {"stop", "abort"}

\* C1: after one prepare() with nb_starts = N >= 1, each of the next N
\* start_acquisition() calls skips the implicit prepare and decrements
\* pending_starts by one, pending_starts is 0 after the N-th call, and the
\* (N+1)-th call takes the implicit-prepare path (warning, engine prepared
\* with nb_starts = 1).
C1_MultiStartSequence ==
    (StartReturned /\ seq_n >= 1) =>
        IF seq_k <= seq_n
        THEN /\ ~call.implicit
             /\ ~Has(call, "warning")
             /\ call.result = "ok"
             /\ pending_starts = call.pending_before - 1
             /\ pending_starts = seq_n - seq_k
        ELSE /\ call.pending_before = 0
             /\ call.implicit
             /\ Has(call, "warning")
             /\ (Has(call, "acquisition.prepare") => call.engine_nb = 1)

C1_Witness ==
    /\ StartReturned
    /\ seq_n >= 2
    /\ seq_k = seq_n + 1
    /\ call.implicit
    /\ call.result = "ok"

\* C2: on the implicit-prepare path the acquisition engine's prepare receives
\* nb_starts = 1, and when start_acquisition() returns or raises nb_starts
\* equals the value it had before the call, also when the implicit prepare()
\* raises.
C2_NbStartsRestored ==
    StartReturned =>
        /\ nb_starts = call.nb_before
        /\ (call.implicit /\ Has(call, "acquisition.prepare")
                => call.engine_nb = 1 /\ acq_nb_starts = 1)

C2_Witness ==
    /\ StartReturned
    /\ call.implicit
    /\ call.result = "raised"
    /\ Has(call, "acquisition.prepare")
    /\ call.nb_before >= 2

\* C3: stop() and abort() are accepted from every state of the group and each
\* leaves pending_starts = 0; a second stop()/abort() in a row leaves
\* pending_starts, nb_starts and the configuration as the first one left
\* them.
C3_StopAbortIdempotent ==
    /\ [](pc = "idle" => (ENABLED Stop) /\ (ENABLED Abort))
    /\ [][(pc = "idle" /\ call'.name \in StopCalls) =>
            /\ pending_starts' = 0
            /\ nb_starts' = nb_starts
            /\ config' = config
            /\ user_element_ids' = user_element_ids
            /\ (call.name \in StopCalls =>
                    pending_starts' = pending_starts)]_vars

C3_Witness ==
    /\ call.name = "abort"
    /\ call.pending_before >= 2
    /\ pending_starts = 0

\* C4: both stop() and abort() explicitly stop the software synchronizer in
\* addition to forwarding to the group-level stop / abort.
C4_SoftSynchStopped ==
    call.name \in StopCalls => Has(call, "synch_soft.stop")

(***************************************************************************)
(* Properties of the run-time state                                        *)
(***************************************************************************)
Published == [state |-> state, status |-> status]

\* C5 (as stated): every (state, status) pair the reader observes is the
\* result of one single fusion computation; the reader never observes the
\* state of one fusion together with the status of another.
C5_ReaderPairSingleFusion ==
    rpc = "done" => robs \in fusions

\* C5 (amended): every state value the reader observes is the state of one
\* single fusion computation (or the initial state) and every status value is
\* the status of one single fusion computation (or the initial status); the
\* pair comes from one single fusion when no handler was between its two
\* publications while the reader read.
C5_ReaderValuesFused ==
    rpc = "done" =>
        /\ \E f \in fusions : robs.state = f.state
        /\ \E f \in fusions : robs.status = f.status
        /\ (~roverlap => robs \in fusions)

C5_Witness ==
    /\ rpc = "done"
    /\ roverlap
    /\ robs \notin fusions
    /\ robs.state # InitialFusion.state

\* C6: the 'state' event handler holds the state mutex for the whole
\* recompute, publish-state, publish-status sequence, so two handlers are
\* never inside that sequence together, and once no handler is inside it the
\* published state and status are the fusion computed by the last handler.
C6_HandlersSerialized ==
    /\ Cardinality({h \in Handlers : InCriticalSection(h)}) <= 1
    /\ \A h \in Handlers : InCriticalSection(h) => state_lock = h
    /\ ((\A h \in Handlers : ~InCriticalSection(h)) =>
            /\ state_lock = "free"
            /\ Published = last_calc)

C6_Witness ==
    /\ hpc["h1"] = "set_status"
    /\ hpc["h2"] = "lock"
    /\ state_lock = "h1"
    /\ state = "Moving"
    /\ delivered >= 2

\* C7: _calculate_states returns Moving with one extra status line exactly
\* when the base state is On or Unknown and at least one of the three flags
\* is true; in every other case it returns the base state and base status.
C7_FusionTable ==
    \A h \in Handlers :
        hloc[h] # NoLocals =>
            LET l == hloc[h]
                n == Len(l.base_status)
            IN  IF /\ l.base_state \in {"On", "Unknown"}
                   /\ (l.synch_soft \/ l.acq_sw \/ l.acq_0d)
                THEN /\ l.state = "Moving"
                     /\ Len(l.status) = n + 1
                     /\ SubSeq(l.status, 1, n) = l.base_status
                ELSE /\ l.state = l.base_state
                     /\ l.status = l.base_status

\* the state half of the fusion table, and the status as the code builds it
FusionStateTable ==
    \A h \in Handlers :
        hloc[h] # NoLocals =>
            LET l == hloc[h]
            IN  IF /\ l.base_state \in {"On", "Unknown"}
                   /\ (l.synch_soft \/ l.acq_sw \/ l.acq_0d)
                THEN /\ l.state = "Moving"
                     /\ l.status = l.base_status \o SwSynchMsg
                ELSE /\ l.state = l.base_state
                     /\ l.status = l.base_status

(***************************************************************************)
(* Properties of the configuration                                         *)
(***************************************************************************)
\* C8: whenever set_configuration_from_user raises, the attributes of the
\* configuration (masters, controller buckets, acquisition synchronization
\* maps, user configuration snapshot, changed flag), the owner's membership
\* ordering and its dirty flag are what they were before the call, and no
\* configuration event is fired.
C8_AllOrNothing ==
    [][(cpc = "compute" /\ cpc' = "idle") =>
            /\ ccall'.result \in Errors
            /\ config' = ccall.before.config
            /\ user_element_ids' = ccall.before.user_element_ids
            /\ config_dirty' = ccall.before.config_dirty
            /\ ccall'.events = <<>>]_vars

C8_Witness ==
    /\ cpc = "idle"
    /\ ccall.result = "NotImplementedError"
    /\ ~config.changed
    /\ config = ccall.before.config
    /\ Len(user_element_ids) >= 2

\* both slots hold a channel item
Elected(ctrl_item) ==
    IsChannelItem(ctrl_item.timer) /\ IsChannelItem(ctrl_item.monitor)

\* C9: validate() raises ValueError for an enabled timerable controller
\* whose timer channel and monitor channel are both disabled, passes when
\* one of the two is enabled or the controller is disabled, and leaves the
\* item and the committed configuration as they were.
C9_ValidateRejects ==
    /\ [](vres.op = "validate" =>
            /\ (Elected(item) =>
                    vres.result =
                        IF /\ item.enabled
                           /\ ~item.timer.attrs.enabled
                           /\ ~item.monitor.attrs.enabled
                        THEN "ValueError" ELSE "ok")
            /\ (~item.enabled => vres.result = "ok"))
    /\ [][vres'.op = "validate" =>
            /\ item' = item
            /\ config' = config
            /\ user_element_ids' = user_element_ids]_vars

C9_Witness ==
    /\ vres = Called("validate", "ValueError")
    /\ item.enabled
    /\ Elected(item)
    /\ item.timer.element # item.monitor.element
    /\ ~item.timer.attrs.enabled
    /\ ~item.monitor.attrs.enabled

\* C10: a thread that reads the controller buckets and the master timer
\* while another thread runs set_configuration_from_user gets both from one
\* model, the old one or the new one.
C10_ReaderSeesOneModel ==
    cr_pc = "done" => \E m \in cr_models : cr_obs = Reads(m)

\* the last call handed the exported configuration back and has returned
RoundTripReturned ==
    /\ cpc = "idle"
    /\ cin # None
    /\ cin.kind = "roundtrip"

\* C11: for every accepted configuration (of a group that has members),
\* set_configuration_from_user(get_user_configuration()) is accepted and
\* leaves the four master slots, the channel and controller variant maps,
\* the controller buckets and the user configuration snapshot as they were.
C11_RoundTrip ==
    (RoundTripReturned /\ Len(ccall.before.user_element_ids) > 0) =>
        /\ ccall.result = "ok"
        /\ ModelOf(config) = ModelOf(ccall.before.config)

\* the channel entries of a user configuration snapshot
SnapshotChannels(uc) ==
    UNION {{uc.controllers[i].data.channels[j] :
                j \in 1..Len(uc.controllers[i].data.channels)} :
           i \in 1..Len(uc.controllers)}

BuildReturned ==
    /\ cpc = "idle"
    /\ cin # None
    /\ cin.kind = "build"

\* C12: for every non-empty member list, the construction of the group
\* (build_measurement_configuration, then set_configuration_from_user) is
\* accepted, the number of enabled channels of the configuration equals the
\* number of members and each channel's index is the position of the member
\* in the list.
C12_BuildAccepted ==
    BuildReturned =>
        /\ ccall.result = "ok"
        /\ Cardinality({e \in SnapshotChannels(config.user_confg) :
                            e.data.enabled}) = Len(cin.members)
        /\ \A k \in 1..Len(cin.members) :
                \E e \in SnapshotChannels(config.user_confg) :
                    /\ e.data.full_name = cin.members[k]
                    /\ e.data.index = k - 1

\* the last call was accepted and has returned
AcceptedReturned ==
    /\ cpc = "idle"
    /\ cin # None
    /\ ccall.result = "ok"

\* the enabled channels, with their indexes, of the controller entries of
\* cfg that are timerable and on software trigger or software gate
EntryChannels(entry) ==
    IF "units" \in DOMAIN entry.data THEN entry.data.units["0"].channels
    ELSE entry.data.channels

SoftwareChannels(cfg, to_fqdn) ==
    UNION {{[name |-> IF to_fqdn THEN ToFqdn(ch.name) ELSE ch.name,
             index |-> ch.data.index] :
              ch \in {EntryChannels(cfg.controllers[i])[j] :
                        j \in {n \in 1..Len(EntryChannels(cfg.controllers[i])) :
                            Get(EntryChannels(cfg.controllers[i])[n].data,
                                "enabled", TRUE)}}} :
           i \in {n \in 1..Len(cfg.controllers) :
                    ControllerEntry(cfg.controllers[n], to_fqdn).acq_synch
                        \in {"SoftwareTrigger", "SoftwareGate"}}}

SoftwareMasters == {"master_timer_sw", "master_monitor_sw"}

\* the configuration of the call in its original order of controllers
OriginalOrder ==
    Normalize(Cfgs[cin.input], cin.to_fqdn,
              GetUserElements(ccall.before.user_element_ids))

\* C13: after an accepted call, the software master timer and the software
\* master monitor are the enabled channel with the smallest index among the
\* timerable controllers on SoftwareTrigger or SoftwareGate (None when there
\* is no such channel), and a call with the controller entries in another
\* order elects the masters of the original order.
C13_MasterSmallestIndex ==
    (AcceptedReturned /\ cin.kind \in {"user", "permuted"}) =>
        /\ \A role \in SoftwareMasters :
              IF SoftwareChannels(cin.cfg, cin.to_fqdn) = {}
              THEN config[role] = None
              ELSE \E c \in SoftwareChannels(cin.cfg, cin.to_fqdn) :
                      /\ config[role].element = c.name
                      /\ config[role].attrs.index = c.index
                      /\ config[role].attrs.enabled
                      /\ \A o \in SoftwareChannels(cin.cfg, cin.to_fqdn) :
                              c.index <= o.index
        /\ (cin.kind = "permuted" =>
                \A role \in SoftwareMasters :
                    config[role] = OriginalOrder[role])

C13_Witness ==
    /\ AcceptedReturned
    /\ cin.kind = "permuted"
    /\ Len(config.timerable_ctrls["SoftwareTrigger"]) = 2
    /\ config.master_timer_sw =
            config.timerable_ctrls["SoftwareTrigger"][1].timer
    /\ config.master_timer_sw.attrs.index = 1
    /\ config.timerable_ctrls["SoftwareTrigger"][2].timer.attrs.index = 2
    /\ OriginalOrder.timerable_ctrls["SoftwareTrigger"][2].timer =
            config.master_timer_sw

\* the emitted warnings but the deprecation notice
WithoutDeprecation(warnings) ==
    SelectSeq(warnings, LAMBDA w : w # "trigger_type")

\* C14: a configuration whose controller entries nest their data under
\* units['0'] and use the trigger_type key ends as the equivalent modern
\* configuration does: the same exception, or the same controller buckets,
\* master slots, variant maps and snapshot; the warnings differ by the
\* deprecation notice only.
C14_LegacyAsModern ==
    (cpc = "idle" /\ cin # None /\ cin.kind = "legacy") =>
        IF OriginalOrder.error # "none"
        THEN ccall.result = OriginalOrder.error
        ELSE /\ ccall.result = "ok"
             /\ ModelOf(config) = ModelOf(OriginalOrder)
             /\ user_element_ids = OriginalOrder.user_elem_ids_list
             /\ WithoutDeprecation(ccall.warnings) = OriginalOrder.warnings

C14_Witness ==
    /\ AcceptedReturned
    /\ cin.kind = "legacy"
    /\ "trigger_type" \in DOMAIN cin.cfg.controllers[1].data.units["0"]
    /\ cin.cfg.controllers[1].data.units["0"].trigger_type = "Gate"
    /\ Len(config.timerable_ctrls["HardwareGate"]) = 1
    /\ ccall.warnings = <<"trigger_type">>

\* C18: a lookup of the variant of an element that is in no controller
\* bucket or list of the committed configuration raises KeyError, and a
\* variant that is returned is the bucket that holds the element in the
\* committed configuration (never the one of a configuration replaced
\* since).
Holds(ctrl_item, element) ==
    \/ ctrl_item.element = element
    \/ \E j \in 1..Len(ctrl_item.channels) :
            ctrl_item.channels[j].element = element

InBucket(conf, variant, element) ==
    \E i \in 1..Len(conf.timerable_ctrls[variant]) :
        Holds(conf.timerable_ctrls[variant][i], element)

PartOf(conf, element) ==
    \/ \E v \in AcqSynchs : InBucket(conf, v, element)
    \/ \E i \in 1..Len(conf.zerod_ctrls) :
            Holds(conf.zerod_ctrls[i], element)
    \/ \E i \in 1..Len(conf.synch_ctrls) :
            Holds(conf.synch_ctrls[i], element)
    \/ \E i \in 1..Len(conf.other_ctrls) :
            Holds(conf.other_ctrls[i], element)

C18_StaleLookupRaises ==
    qry.op \in {"get_acq_synch_by_controller", "get_acq_synch_by_channel"} =>
        /\ (~PartOf(config, qry.element) => qry.result = "KeyError")
        /\ (qry.result # "KeyError" =>
                InBucket(config, qry.result, qry.element))

C18_Witness ==
    /\ qry.op = "get_acq_synch_by_controller"
    /\ qry.result = "KeyError"
    /\ ccall.result = "ok"
    /\ ccall.before # None
    /\ qry.element \in DOMAIN ccall.before.config.ctrl_acq_synch
    /\ ccall.before.config.ctrl_acq_synch[qry.element] = "SoftwareTrigger"

\* C19: no controller entry of the exported user configuration has a
\* 'units' key or a 'trigger_type' key, and the channels sit directly under
\* the controller entry, whatever schema the accepted input was written in.
C19_NoLegacyExport ==
    \A i \in 1..Len(config.user_confg.controllers) :
        /\ "units" \notin DOMAIN config.user_confg.controllers[i].data
        /\ "trigger_type" \notin DOMAIN config.user_confg.controllers[i].data
        /\ "channels" \in DOMAIN config.user_confg.controllers[i].data
        /\ \A j \in 1..Len(config.user_confg.controllers[i].data.channels) :
              "index" \in DOMAIN
                  config.user_confg.controllers[i].data.channels[j].data

C19_Witness ==
    /\ AcceptedReturned
    /\ cin.kind = "legacy"
    /\ "units" \in DOMAIN cin.cfg.controllers[1].data
    /\ "trigger_type" \in DOMAIN cin.cfg.controllers[1].data.units["0"]
    /\ Len(config.user_confg.controllers) = 1
    /\ config.user_confg.controllers[1].data.synchronization = "Gate"

(***************************************************************************)
(* Properties of the accessors                                             *)
(***************************************************************************)
\* C15: get_integration_time() returns the active time when the
\* synchronization description has exactly one group and raises when it has
\* none or more than one (it returns nothing then); in Timer mode prepare()
\* then raises before it touches pending_starts or the acquisition engine.
C15_IntegrationTimeOneGroup ==
    /\ call.name = "get_integration_time" =>
            IF Len(synchronization) = 1
            THEN /\ call.result = "ok"
                 /\ call.value = <<synchronization[1].Active>>
            ELSE /\ call.result = "raised"
                 /\ call.value = <<>>
    /\ (/\ call.name = "prepare"
        /\ pc = "idle"
        /\ acquisition_mode = "Timer"
        /\ Len(synchronization) # 1) =>
            /\ call.result = "raised"
            /\ pending_starts = call.pending_before
            /\ ~Has(call, "acquisition.prepare")

C15_Witness ==
    /\ call.name = "prepare"
    /\ pc = "idle"
    /\ call.result = "raised"
    /\ acquisition_mode = "Timer"
    /\ Len(synchronization) = 2
    /\ call.pending_before = 2
    /\ pending_starts = 2

\* C16: in simulation mode start_acquisition() calls neither the run() nor
\* (on the implicit-prepare path) the prepare() of the acquisition engine.
C16_SimulationNoEngine ==
    (StartReturned /\ simulation_mode) =>
        /\ ~Has(call, "acquisition.run")
        /\ ~Has(call, "acquisition.prepare")

\* the event of each setter
EventOf ==
    [n \in {"set_integration_time", "set_monitor_count",
            "set_acquisition_mode", "set_synchronization", "set_moveable",
            "set_nb_starts"} |->
        CASE n = "set_integration_time" -> "event:integration_time"
          [] n = "set_monitor_count" -> "event:monitor_count"
          [] n = "set_acquisition_mode" -> "event:acquisition_mode"
          [] n = "set_synchronization" -> "event:synchronization"
          [] n = "set_moveable" -> "event:moveable"
          [] n = "set_nb_starts" -> "event:nb_starts"]

\* the attribute a setter assigns holds the value it was called with
Assigned(c) ==
    CASE c.name = "set_integration_time" ->
            /\ Len(synchronization) = 1
            /\ synchronization[1].Active = c.value[1]
      [] c.name = "set_monitor_count" -> monitor_count = c.value[1]
      [] c.name = "set_acquisition_mode" -> acquisition_mode = c.value[1]
      [] c.name = "set_synchronization" -> synchronization = c.value[1]
      [] c.name = "set_moveable" -> moveable = c.value[1]
      [] c.name = "set_nb_starts" -> nb_starts = c.value[1]

\* C17: a setter of the orchestrator assigns the value, and called with
\* propagate = 0 it fires no event of its own type; the same holds for the
\* configuration event of set_configuration_from_user.
C17_NoEventWithoutPropagate ==
    /\ call.name \in DOMAIN EventOf =>
            /\ Assigned(call)
            /\ (call.propagate = 0 => ~Has(call, EventOf[call.name]))
    /\ (cpc = "idle" /\ cin # None /\ ccall.result = "ok"
            /\ cin.propagate = 0) => ccall.events = <<>>

(***************************************************************************)
(* Properties of the election inside one controller                        *)
(***************************************************************************)
\* the first channel, in insertion order, among those of smallest index
FirstOfSmallestIndex(chans) ==
    chans[CHOOSE k \in 1..Len(chans) :
            /\ \A j \in 1..Len(chans) :
                    chans[j].attrs.index >= chans[k].attrs.index
            /\ \A j \in 1..(k - 1) :
                    chans[j].attrs.index > chans[k].attrs.index]

ElectedFirst(op, slot) ==
    (/\ vres.op = op
     /\ vres.was_none
     /\ Len(item.channels_enabled) > 0) =>
        slot = FirstOfSmallestIndex(GetChannels(item, TRUE))

\* C20: update_timer / update_monitor called with no timer / monitor set
\* choose the enabled channel with the smallest index and, among enabled
\* channels of equal index, the one found first in insertion order.
C20_FirstOfSmallestIndex ==
    /\ ElectedFirst("update_timer", item.timer)
    /\ ElectedFirst("update_monitor", item.monitor)

(***************************************************************************)
(* Properties of the normalization of the controller entries               *)
(***************************************************************************)
\* the data of a controller entry in either schema
EntryData(entry) ==
    IF "units" \in DOMAIN entry.data THEN entry.data.units["0"]
    ELSE entry.data

\* a name of the input as the normalization reads it
ReadName(name, to_fqdn) == IF to_fqdn THEN ToFqdn(name) ELSE name

\* the entry names, under role, one of its enabled channels
NamesEnabledChannel(entry, role, to_fqdn) ==
    /\ role \in DOMAIN EntryData(entry)
    /\ \E j \in 1..Len(EntryData(entry).channels) :
          /\ ReadName(EntryData(entry).channels[j].name, to_fqdn) =
                ReadName(EntryData(entry)[role], to_fqdn)
          /\ Get(EntryData(entry).channels[j].data, "enabled", TRUE)

\* the timerable controller items of a configuration
TimerableItems(conf) ==
    UNION {{conf.timerable_ctrls[v][i] :
                i \in 1..Len(conf.timerable_ctrls[v])} : v \in AcqSynchs}

\* the snapshot entries of a controller
SnapshotEntries(conf, ctrl_name) ==
    {conf.user_confg.controllers[k].data :
        k \in {n \in 1..Len(conf.user_confg.controllers) :
                    conf.user_confg.controllers[n].name = ctrl_name}}

ExplicitMaster(entry, role, to_fqdn) ==
    (/\ ControllerEntry(entry, to_fqdn).timerable
     /\ NamesEnabledChannel(entry, role, to_fqdn)) =>
        /\ \A it \in TimerableItems(config) :
              it.element = ControllerEntry(entry, to_fqdn).ctrl_name =>
                  it[role].element = ReadName(EntryData(entry)[role], to_fqdn)
        /\ \A e \in SnapshotEntries(config,
                        ControllerEntry(entry, to_fqdn).ctrl_name) :
              e[role] = ReadName(EntryData(entry)[role], to_fqdn)

\* C21: after an accepted call, a timerable controller entry whose 'timer'
\* ('monitor') key names one of its enabled channels has that channel as the
\* timer (monitor) of its controller item and as the timer (monitor) of its
\* snapshot entry, whatever the indexes of its other enabled channels are.
C21_ExplicitMaster ==
    AcceptedReturned =>
        \A i \in 1..Len(cin.cfg.controllers) :
            \A role \in {"timer", "monitor"} :
                ExplicitMaster(cin.cfg.controllers[i], role, cin.to_fqdn)

\* no channel entry of cfg is enabled
NoEnabledChannel(cfg) ==
    \A i \in 1..Len(cfg.controllers) :
        \A j \in 1..Len(EntryData(cfg.controllers[i]).channels) :
            ~Get(EntryData(cfg.controllers[i]).channels[j].data,
                 "enabled", TRUE)

\* the last call of set_configuration_from_user has returned or raised
ConfReturned ==
    /\ cpc = "idle"
    /\ cin # None
    /\ cin.kind \in {"user", "permuted", "legacy", "roundtrip"}

\* C22: set_configuration_from_user raises the configuration error
\* (ValueError) when the group has no member and when every channel entry
\* of the supplied configuration is disabled.
C22_ZeroEnabledRejected ==
    (/\ ConfReturned
     /\ \/ Len(ccall.before.user_element_ids) = 0
        \/ NoEnabledChannel(cin.cfg)) => ccall.result = "ValueError"

\* the elements of a sequence
\* the controller items of the channels of the group
RegularItems(conf) ==
    TimerableItems(conf) \cup Range(conf.zerod_ctrls)
        \cup Range(conf.other_ctrls)

\* the enabled channel items of a configuration
EnabledChannels(conf) ==
    UNION {{c \in Range(it.channels) : c.attrs.enabled} :
                it \in RegularItems(conf)}

\* the enabled synchronizers of a configuration
EnabledSynchronizers(conf) ==
    UNION {{c.element : c \in {d \in Range(it.channels) : d.attrs.enabled}} :
                it \in Range(conf.synch_ctrls)}

\* channel.id, and the full name for an external attribute
IdOf(element) ==
    IF element \in DOMAIN Pool THEN Pool[element].id ELSE element

\* the position of an enabled channel among the enabled channels by index
RankOf(c, chans) ==
    1 + Cardinality({o \in chans : o.attrs.index < c.attrs.index})

\* C23: after an accepted call the member ids are the ids of the enabled
\* channels by increasing index, one for each enabled channel, followed by
\* the ids of the enabled synchronizers, one for each enabled synchronizer.
C23_MemberIds ==
    AcceptedReturned =>
        /\ Len(user_element_ids) =
              Cardinality(EnabledChannels(config))
                + Cardinality(EnabledSynchronizers(config))
        /\ \A c \in EnabledChannels(config) :
              /\ RankOf(c, EnabledChannels(config)) <= Len(user_element_ids)
              /\ user_element_ids[RankOf(c, EnabledChannels(config))] =
                    IdOf(c.element)
        /\ \A e \in EnabledSynchronizers(config) :
              \E k \in (Cardinality(EnabledChannels(config)) + 1)
                        ..Len(user_element_ids) :
                  user_element_ids[k] = IdOf(e)

\* C24: after an accepted call no two entries of the list of synchronizer
\* controllers are for the same controller of the pool.
C24_OneSynchController ==
    AcceptedReturned =>
        \A i, j \in 1..Len(config.synch_ctrls) :
            config.synch_ctrls[i].element = config.synch_ctrls[j].element
                => i = j

\* the controller entries of cfg as the normalization reads them
EntriesRead(cfg, to_fqdn) ==
    [i \in 1..Len(cfg.controllers) |->
        ControllerEntry(cfg.controllers[i], to_fqdn)]

\* some channel entry of the controller entry is enabled
AnyChannelEnabled(h) ==
    \E j \in 1..Len(h.ctrl_data.channels) :
        Get(h.ctrl_data.channels[j].data, "enabled", TRUE)

\* the entries with channels that reference a synchronizer of controller
\* ctrl, in the order of cfg
ReferencesTo(cfg, to_fqdn, ctrl) ==
    SelectSeq(EntriesRead(cfg, to_fqdn),
              LAMBDA h : /\ Len(h.ctrl_data.channels) > 0
                         /\ ~h.software
                         /\ Pool[h.synchronizer].controller = ctrl)

\* the synchronizer items these entries ask for
ExpectedSynchronizers(refs) ==
    [k \in 1..Len(refs) |->
        [element |-> refs[k].synchronizer,
         attrs |-> [enabled |-> AnyChannelEnabled(refs[k])]]]

SynchControllerAgrees(it) ==
    /\ it.channels =
          ExpectedSynchronizers(ReferencesTo(cin.cfg, cin.to_fqdn,
                                             it.element))
    /\ it.enabled = (\E c \in Range(it.channels) : c.attrs.enabled)
    /\ it.channels_enabled = Positions(it.channels, TRUE)
    /\ it.channels_disabled = Positions(it.channels, FALSE)

\* C25: after an accepted call each synchronizer item is enabled exactly
\* when the controller entry that references it has an enabled channel, and
\* the enabled flag and the lists of enabled and disabled channels of each
\* synchronizer controller agree with the flags of its items.
C25_SynchronizerEnabled ==
    AcceptedReturned =>
        \A it \in Range(config.synch_ctrls) : SynchControllerAgrees(it)

C25_Witness ==
    /\ AcceptedReturned
    /\ Len(config.synch_ctrls) > 0
    /\ Len(config.synch_ctrls[1].channels) = 2
    /\ config.synch_ctrls[1].channels[1].attrs.enabled
    /\ ~config.synch_ctrls[1].channels[2].attrs.enabled
    /\ config.synch_ctrls[1].channels_enabled = <<1>>
    /\ config.synch_ctrls[1].channels_disabled = <<2>>

\* the synchronization type an entry asks for
ExpectedType(data) ==
    Get(data, "synchronization", Get(data, "trigger_type", "Trigger"))

\* the entry is read through the trigger_type key
UsesTriggerType(data) ==
    /\ "synchronization" \notin DOMAIN data
    /\ "trigger_type" \in DOMAIN data

\* the controller entries of cfg that have channels
EntriesWithChannels(cfg) ==
    {i \in 1..Len(cfg.controllers) :
        Len(EntryData(cfg.controllers[i]).channels) > 0}

Occurrences(seq, x) == Cardinality({k \in 1..Len(seq) : seq[k] = x})

\* C26: after an accepted call the synchronization type of every controller
\* entry (that has channels) is its 'synchronization' value, else its
\* 'trigger_type' value, else Trigger, and the deprecation warning was
\* given once for each entry read through 'trigger_type' and for no other.
C26_SynchronizationType ==
    AcceptedReturned =>
        /\ \A i \in EntriesWithChannels(cin.cfg) :
              \A e \in SnapshotEntries(config,
                            ReadName(cin.cfg.controllers[i].name,
                                     cin.to_fqdn)) :
                  e.synchronization =
                      ExpectedType(EntryData(cin.cfg.controllers[i]))
        /\ Occurrences(ccall.warnings, "trigger_type") =
              Cardinality({i \in EntriesWithChannels(cin.cfg) :
                    UsesTriggerType(EntryData(cin.cfg.controllers[i]))})

C26_Witness ==
    /\ AcceptedReturned
    /\ cin.kind = "user"
    /\ UsesTriggerType(cin.cfg.controllers[1].data)
    /\ config.user_confg.controllers[1].data.synchronization = "Gate"
    /\ ccall.warnings = <<"trigger_type">>

\* the synchronizer of the entry is the software one: the key is absent,
\* null or 'software' (lines 682-686)
SoftwareSynchronizer(data) ==
    Get(data, "synchronizer", "software") \in {NoneName, "software"}

\* the places of a controller in the buckets
BucketPlaces(conf, ctrl_name) ==
    UNION {{<<v, k>> : k \in {n \in 1..Len(conf.timerable_ctrls[v]) :
                conf.timerable_ctrls[v][n].element = ctrl_name}} :
           v \in AcqSynchs}

InList(list, ctrl_name) == \E it \in Range(list) : it.element = ctrl_name

\* h is an entry as read, data its data in the input
Classified(conf, h, data) ==
    IF h.external
    THEN /\ InList(conf.other_ctrls, h.ctrl_name)
         /\ BucketPlaces(conf, h.ctrl_name) = {}
         /\ ~InList(conf.zerod_ctrls, h.ctrl_name)
    ELSE IF h.timerable
    THEN /\ Cardinality(BucketPlaces(conf, h.ctrl_name)) = 1
         /\ \A p \in BucketPlaces(conf, h.ctrl_name) :
              /\ p[1] = FromSynchType(SoftwareSynchronizer(data),
                                      ExpectedType(data))
              /\ LookUp(conf.ctrl_acq_synch, h.ctrl_name) = p[1]
         /\ ~InList(conf.other_ctrls, h.ctrl_name)
         /\ ~InList(conf.zerod_ctrls, h.ctrl_name)
    ELSE /\ h.ctrl_type = "ZeroDExpChannel" =>
                InList(conf.zerod_ctrls, h.ctrl_name)
         /\ BucketPlaces(conf, h.ctrl_name) = {}
         /\ ~InList(conf.other_ctrls, h.ctrl_name)

\* C27: after an accepted call every timerable controller of the
\* configuration is at exactly one place of the six buckets, in the bucket
\* of the variant given by (its synchronizer is the software one, its
\* synchronization type), and get_acq_synch_by_controller answers with that
\* variant; an external controller is in the list of other controllers
\* only and a ZeroD controller in the list of ZeroD controllers only.
C27_OneBucket ==
    AcceptedReturned =>
        \A i \in EntriesWithChannels(cin.cfg) :
            Classified(config,
                       ControllerEntry(cin.cfg.controllers[i], cin.to_fqdn),
                       EntryData(cin.cfg.controllers[i]))

(***************************************************************************)
(* Properties of the masters of the group                                  *)
(***************************************************************************)
StartMasters == {"master_timer_sw_start", "master_monitor_sw_start"}

\* the channel items of the controllers in the buckets of these variants
ChannelsOn(conf, variants) ==
    UNION {Range(it.channels) :
            it \in UNION {Range(conf.timerable_ctrls[v]) : v \in variants}}

\* the channel items of the controllers that take no part in an election
ChannelsOutside(conf) ==
    ChannelsOn(conf, {"HardwareTrigger", "HardwareGate", "HardwareStart"})
        \cup UNION {Range(it.channels) :
                        it \in Range(conf.zerod_ctrls)
                                \cup Range(conf.other_ctrls)}

\* C28: after an accepted call the software master timer and monitor are
\* channels of controllers on SoftwareTrigger or SoftwareGate, the
\* software-start masters are channels of controllers on SoftwareStart, and
\* no master is a channel of a hardware-synchronized, ZeroD or external
\* controller.
C28_MastersByDomain ==
    AcceptedReturned =>
        /\ \A role \in SoftwareMasters :
              config[role] # None =>
                config[role] \in
                    ChannelsOn(config, {"SoftwareTrigger", "SoftwareGate"})
        /\ \A role \in StartMasters :
              config[role] # None =>
                config[role] \in ChannelsOn(config, {"SoftwareStart"})
        /\ \A role \in SoftwareMasters \cup StartMasters :
              config[role] \notin ChannelsOutside(config)

C28_Witness ==
    /\ AcceptedReturned
    /\ config.master_timer_sw # None
    /\ config.master_timer_sw.element = "fq/ct3"
    /\ \E c \in ChannelsOutside(config) :
          /\ c.attrs.enabled
          /\ c.attrs.index < config.master_timer_sw.attrs.index
    /\ config.master_timer_sw_start = None

\* the master slots a group-level name of the snapshot is taken from
SlotsOf(role) ==
    IF role = "timer"
    THEN [sw |-> "master_timer_sw", start |-> "master_timer_sw_start"]
    ELSE [sw |-> "master_monitor_sw", start |-> "master_monitor_sw_start"]

\* the snapshot keeps the name the supplied configuration has under role
KeepsSupplied(role) ==
    /\ role \in DOMAIN cin.cfg
    /\ config.user_confg[role] = cin.cfg[role]

\* C29 (as stated): after an accepted call the group-level timer and monitor
\* of the snapshot are the full name of the software trigger / gate master
\* when one was elected, and the names of the supplied configuration when
\* none was elected (pure software-start or hardware-only configurations).
C29_GroupMasterOrSupplied ==
    AcceptedReturned =>
        \A role \in {"timer", "monitor"} :
            IF config[SlotsOf(role).sw] # None
            THEN config.user_confg[role] =
                    config[SlotsOf(role).sw].attrs.full_name
            ELSE KeepsSupplied(role)

\* C29 (amended): after an accepted call the group-level timer and monitor
\* of the snapshot are the full name of the software trigger / gate master
\* when one was elected, else the full name of the software-start master
\* when one was elected, and the names of the supplied configuration only
\* when neither was elected.
C29_GroupMasterThenStart ==
    AcceptedReturned =>
        \A role \in {"timer", "monitor"} :
            IF config[SlotsOf(role).sw] # None
            THEN config.user_confg[role] =
                    config[SlotsOf(role).sw].attrs.full_name
            ELSE IF config[SlotsOf(role).start] # None
            THEN config.user_confg[role] =
                    config[SlotsOf(role).start].attrs.full_name
            ELSE KeepsSupplied(role)

C29_Witness ==
    /\ AcceptedReturned
    /\ config.master_timer_sw = None
    /\ config.master_timer_sw_start # None
    /\ config.master_timer_sw_start.element = "fq/ct1"
    /\ "timer" \in DOMAIN cin.cfg
    /\ cin.cfg.timer = "fq/ct2"
    /\ config.user_confg.timer = "fq/ct1"

EnabledTimerable(conf) ==
    {it.element : it \in {t \in TimerableItems(conf) :
                            \E c \in Range(t.channels) : c.attrs.enabled}}

MaxOf(S) == CHOOSE m \in S : \A x \in S : x <= m

C31_WitnessNone ==
    /\ cpc = "idle"
    /\ qry.op = "get_latency_time"
    /\ EnabledTimerable(config) = {}
    /\ qry.pars["fq/zctrl"] = 3
    /\ qry.result = 0

(***************************************************************************)
(* C32: set_integration_time(t) installs a synchronization description of  *)
(* exactly one group with Delay 0, Active t, Repeats 1 and Total equal to  *)
(* t plus the current latency time, and a get_integration_time() that      *)
(* follows returns t.                                                      *)
(***************************************************************************)
SetIntegrationTimeReturned ==
    /\ pc = "idle"
    /\ call.name = "set_integration_time"

FusionInputs(l) ==
    <<l.base_state, l.base_status, l.synch_soft, l.acq_sw, l.acq_0d>>

FusionOutput(l) == <<l.state, l.status>>

Fused(c) == hloc'[c] # hloc[c] \/ last_calc' # last_calc

OwnerOf(m) == IF IsExternalMember(m) THEN "__tango__" ELSE Pool[m].controller

\* the channels that the members put under the controller name
MembersUnder(members, name) ==
    {[name |-> members[k], data |-> [index |-> k - 1]] :
        k \in {j \in 1..Len(members) : OwnerOf(members[j]) = name}}

C34_BuildRecordsMembers ==
    (cin # None /\ cin.kind = "build") =>
        /\ DOMAIN cin.cfg = {"controllers"}
        /\ {e.name : e \in Range(cin.cfg.controllers)} =
                {OwnerOf(m) : m \in Range(cin.members)}
        /\ \A i, j \in 1..Len(cin.cfg.controllers) :
                cin.cfg.controllers[i].name = cin.cfg.controllers[j].name
                    => i = j
        /\ \A e \in Range(cin.cfg.controllers) :
                /\ DOMAIN e.data = {"channels"}
                /\ Len(e.data.channels) > 0
                /\ Range(e.data.channels) = MembersUnder(cin.members, e.name)
                /\ Len(e.data.channels) =
                        Cardinality(MembersUnder(cin.members, e.name))
        /\ ("__tango__" \in {e.name : e \in Range(cin.cfg.controllers)}
                <=> \E m \in Range(cin.members) : IsExternalMember(m))

\* an external member between two channels of different controllers
C34_Witness ==
    /\ cin # None
    /\ cin.kind = "build"
    /\ cin.members = <<"fq/ct3", "ext/a", "fq/ct1">>
    /\ Len(cin.cfg.controllers) = 3
    /\ cin.cfg.controllers[3].name = "__tango__"
    /\ cin.cfg.controllers[3].data.channels[1].data.index = 1
    /\ cpc = "idle"

(***************************************************************************)
(* C35: a controller entry without channels is discarded by the            *)
(* normalization: no controller item is made for it, it is in no bucket    *)
(* or list, it takes part in no election and it is not in the exported     *)
(* user configuration.                                                     *)
(***************************************************************************)
HasChannels(entry) == Len(EntryData(entry).channels) > 0

EmptyEntries(cfg) == {e \in Range(cfg.controllers) : ~HasChannels(e)}

WithoutEmpty(cfg) ==
    WithControllers(cfg, SelectSeq(cfg.controllers, HasChannels))

NameRead(name, to_fqdn) == IF to_fqdn THEN ToFqdn(name) ELSE name

C35_EmptyEntryDiscarded ==
    (cpc = "idle" /\ cin # None /\ EmptyEntries(cin.cfg) # {}) =>
        /\ AcceptedReturned =>
            \A e \in EmptyEntries(cin.cfg) :
                /\ ~PartOf(config, NameRead(e.name, cin.to_fqdn))
                /\ NameRead(e.name, cin.to_fqdn) \notin
                        DOMAIN config.ctrl_acq_synch
                /\ \A u \in Range(config.user_confg.controllers) :
                        u.name # NameRead(e.name, cin.to_fqdn)
                /\ ("synchronizer" \in DOMAIN EntryData(e)
                        /\ EntryData(e).synchronizer \in DOMAIN Pool) =>
                        EntryData(e).synchronizer \notin
                            EnabledSynchronizers(config)
        \* the call ends as the call without these entries does
        /\ \E r \in {Normalize(WithoutEmpty(cin.cfg), cin.to_fqdn,
                               ccall.before.user_element_ids)} :
            IF r.error # "none" THEN ccall.result = r.error
            ELSE /\ ccall.result = "ok"
                 /\ \A f \in DOMAIN ModelOf(r) : config[f] = r[f]
                 /\ user_element_ids = r.user_elem_ids_list

\* the entry without channels comes first and names a synchronizer
C35_Witness ==
    /\ AcceptedReturned
    /\ cin.kind = "user"
    /\ Len(cin.cfg.controllers) = 2
    /\ ~HasChannels(cin.cfg.controllers[1])
    /\ "synchronizer" \in DOMAIN cin.cfg.controllers[1].data
    /\ Len(config.user_confg.controllers) = 1
    /\ Len(config.synch_ctrls) = 0

(***************************************************************************)
(* C36: after add_channel calls followed by update_state, enabled is the   *)
(* logical OR of the enabled flags of the channels, get_channels(True)     *)
(* and get_channels(False) are disjoint, together they hold every channel  *)
(* of get_channels(None), and each keeps the insertion order.              *)
(***************************************************************************)
Increasing(pos) == \A i, j \in 1..Len(pos) : i < j => pos[i] < pos[j]

C36_UpdateStatePartition ==
    vres.op = "update_state" =>
        /\ item.enabled = (\E c \in Range(item.channels) : c.attrs.enabled)
        /\ Range(GetChannels(item, TRUE)) \cap
                Range(GetChannels(item, FALSE)) = {}
        /\ Range(GetChannels(item, TRUE)) \cup
                Range(GetChannels(item, FALSE)) = Range(item.channels)
        /\ Len(item.channels_enabled) + Len(item.channels_disabled) =
                Len(item.channels)
        /\ Increasing(item.channels_enabled)
        /\ Increasing(item.channels_disabled)
        /\ \A c \in Range(GetChannels(item, TRUE)) : c.attrs.enabled
        /\ \A c \in Range(GetChannels(item, FALSE)) : ~c.attrs.enabled

\* two channels, the first one disabled
C36_Witness ==
    /\ vres.op = "update_state"
    /\ Len(item.channels) = 2
    /\ item.enabled
    /\ item.channels_disabled = <<1>>
    /\ item.channels_enabled = <<2>>

(***************************************************************************)
(* C37: start_acquisition() invokes the run() of the acquisition engine    *)
(* only when the most recent prepare(), explicit or implicit, completed    *)
(* without error: after a prepare() that raised, no start_acquisition()    *)
(* runs the engine without a new successful prepare.                       *)
(***************************************************************************)
C37_RunOnlyAfterPrepared ==
    (call.name = "start_acquisition" /\ Has(call, "acquisition.run")) =>
        IF call.implicit THEN Has(call, "acquisition.prepare")
        ELSE ~call.prepare_raised

\* a start that made an implicit prepare runs the engine only when that
\* prepare completed
C37_ImplicitPrepared ==
    (call.name = "start_acquisition" /\ Has(call, "acquisition.run")
        /\ call.implicit) =>
        /\ Has(call, "acquisition.prepare")
        /\ acq_prepared

(***************************************************************************)
(* C38: with nb_starts >= 1, pending_starts is never negative, also under  *)
(* every interleaving of a start_acquisition() of the caller's thread      *)
(* with a stop() or an abort() issued from another thread.                 *)
(***************************************************************************)
C38_PendingNeverNegative == nb_starts >= 1 => pending_starts >= 0

\* while the calls are made by one thread, pending_starts stays within
\* 0..nb_starts of the prepare that set it
C38_PendingSequential == pending_starts \in 0..MaxNbStarts

(***************************************************************************)
(* C39: the snapshot and the elected variant agree on the synchronizer:    *)
(* for every timerable controller of a committed configuration the         *)
(* exported 'synchronizer' is 'software' exactly when the variant of the   *)
(* controller is SoftwareTrigger, SoftwareGate or SoftwareStart, also      *)
(* when the supplied entry has no such key or has it set to null.          *)
(***************************************************************************)
SoftwareVariants == {"SoftwareTrigger", "SoftwareGate", "SoftwareStart"}

TimerableExported(conf) ==
    {u \in Range(conf.user_confg.controllers) :
        /\ u.name \in DOMAIN Pool
        /\ Pool[u.name].timerable}

C39_SnapshotAgreesWithVariant ==
    AcceptedReturned =>
        \A u \in TimerableExported(config) :
            /\ u.name \in DOMAIN config.ctrl_acq_synch
            /\ (u.data.synchronizer = "software" <=>
                    config.ctrl_acq_synch[u.name] \in SoftwareVariants)

\* the same for the entries that name a synchronizer or have no such key
C39_AgreesUnlessNull ==
    (AcceptedReturned
        /\ \A e \in Range(cin.cfg.controllers) :
            "synchronizer" \in DOMAIN EntryData(e) =>
                EntryData(e).synchronizer # NoneName) =>
        \A u \in TimerableExported(config) :
            /\ u.name \in DOMAIN config.ctrl_acq_synch
            /\ (u.data.synchronizer = "software" <=>
                    config.ctrl_acq_synch[u.name] \in SoftwareVariants)

(***************************************************************************)
(* C40: add_user_element skips a TriggerGate element that is already a     *)
(* member of the group, so a TriggerGate is at most once among the user    *)
(* elements of the group whatever add_user_element calls are made.         *)
(***************************************************************************)
IsTriggerGate(element) == Pool[element].type = "TriggerGate"

C40_TriggerGateOnce ==
    /\ \A e \in UserElementInputs :
            IsTriggerGate(e) => Occurrences(group_elements, e) <= 1
    /\ (/\ vres.op = "add_user_element"
        /\ IsTriggerGate(vres.element)
        /\ vres.element \in Range(vres.before)) =>
            /\ vres.result = "skipped"
            /\ group_elements = vres.before

\* a trigger/gate was added again to a group that also holds a channel
C40_Witness ==
    /\ vres.op = "add_user_element"
    /\ vres.element = "fq/tg1"
    /\ vres.result = "skipped"
    /\ group_elements = <<"fq/ct1", "fq/tg1", "fq/tg2">>

================================================================
